---- MODULE Spec2Model ----
(***************************************************************************)
(* Weather / meter ingestion: validation, plant-operation calculation,     *)
(* submission (MongoDB upsert) and the upload page workflow.               *)
(*                                                                         *)
(* Strings of the program are sequences of one-character strings, so that  *)
(* regular expressions, trim, split, slice and padStart are computed       *)
(* character by character.  JavaScript values that may be a number, NaN,   *)
(* undefined or null are tagged records.                                   *)
(***************************************************************************)
EXTENDS Integers, Sequences, FiniteSets, TLC

VARIABLES
    w,          \* weather documents the store returned for one date, in store order
    plant,      \* last plant-operation calculation: [op, start, stop, total]
    duration,   \* last total-duration calculation: [op, sh, sm, eh, em, total]
    wstore,     \* the weather collection: documents in insertion order
    calls,      \* validateRows invocations waiting for Weather.find: [svc, rows, seenDates]
    done,       \* completed validateRows invocations: [svc, rows, result]
    mstore,     \* the meter collection: documents in insertion order
    subs,       \* submitRows invocations in flight
    log,        \* completed submitRows invocations: [svc, rows, pre, post, threw, counts, alone]
    page,       \* state of the weather upload page
    req,        \* the request of the page that is in flight
    conv        \* the last date conversion: [op, input, out]

vars == <<w, plant, duration, wstore, calls, done, mstore, subs, log, page, req, conv>>

\* the variables outside the plant-operation and duration calculations
outsideCalc == <<wstore, calls, done, mstore, subs, log, page, req, conv>>

\* the variables outside the validation services
outsideValidate == <<w, plant, duration, mstore, subs, log, page, req, conv>>

\* the variables outside the submit services
outsideSubmit == <<w, plant, duration, calls, done, page, req, conv>>

\* the variables outside the upload page and the weather collection
outsidePage == <<w, plant, duration, calls, done, mstore, subs, log, conv>>

\* the variables outside the date conversions
outsideDates == <<w, plant, duration, wstore, calls, done, mstore, subs, log, page, req>>

(***************************************************************************)
(* Bounds                                                                  *)
(***************************************************************************)
MaxSamples == 3

(***************************************************************************)
(* JavaScript values                                                       *)
(***************************************************************************)
Num(n) == [t |-> "num", n |-> n]
NaN == [t |-> "nan"]
Undef == [t |-> "undef"]
Null == [t |-> "null"]
Str(s) == [t |-> "str", s |-> s]

IsNum(v) == v.t = "num"

Digits == {"0", "1", "2", "3", "4", "5", "6", "7", "8", "9"}

DigitChars == <<"0", "1", "2", "3", "4", "5", "6", "7", "8", "9">>

DigitVals == [c \in Digits |-> (CHOOSE i \in 1..10 : DigitChars[i] = c) - 1]

DigitVal(c) == DigitVals[c]

AllDigits(s) == \A i \in 1..Len(s) : s[i] \in Digits

RECURSIVE DecVal(_)
DecVal(s) == IF s = <<>> THEN 0 ELSE 10 * DecVal(SubSeq(s, 1, Len(s) - 1)) + DigitVal(s[Len(s)])

RECURSIVE NatToStr(_)
NatToStr(n) == IF n < 10 THEN <<DigitChars[n + 1]>> ELSE NatToStr(n \div 10) \o <<DigitChars[(n % 10) + 1]>>

PadStart2(s) == IF Len(s) >= 2 THEN s ELSE IF Len(s) = 1 THEN <<"0">> \o s ELSE <<"0", "0">>

RECURSIVE TrimLeft(_)
TrimLeft(s) == IF s # <<>> /\ s[1] = " " THEN TrimLeft(Tail(s)) ELSE s

RECURSIVE TrimRight(_)
TrimRight(s) == IF s # <<>> /\ s[Len(s)] = " " THEN TrimRight(SubSeq(s, 1, Len(s) - 1)) ELSE s

Trim(s) == TrimRight(TrimLeft(s))

Slice5(s) == SubSeq(s, 1, IF Len(s) < 5 THEN Len(s) ELSE 5)

\* JavaScript remainder: the sign of the result follows the dividend
JSRem(a, b) == IF a >= 0 THEN a % b ELSE 0 - ((0 - a) % b)

(***************************************************************************)
(* Time helpers of the meter validate service                              *)
(***************************************************************************)
pad2(n) == PadStart2(NatToStr(n))

\* /^(\d{2}):(\d{2})$/
MatchHHMM(s) == Len(s) = 5 /\ s[3] = ":" /\ AllDigits(SubSeq(s, 1, 2)) /\ AllDigits(SubSeq(s, 4, 5))

isValidHHMM(v) ==
    LET s == Trim(v)
    IN  /\ MatchHHMM(s)
        /\ DecVal(SubSeq(s, 1, 2)) >= 0 /\ DecVal(SubSeq(s, 1, 2)) <= 23
        /\ DecVal(SubSeq(s, 4, 5)) >= 0 /\ DecVal(SubSeq(s, 4, 5)) <= 59

\* position of the first ":" of s, 0 when there is none
RECURSIVE ColonFrom(_, _)
ColonFrom(s, i) == IF i > Len(s) THEN 0 ELSE IF s[i] = ":" THEN i ELSE ColonFrom(s, i + 1)

FirstColon(s) == ColonFrom(s, 1)

\* /^(\d{1,2}):(\d{2}):(\d{2})$/
MatchHMMSS(s) ==
    LET c == FirstColon(s)
    IN  /\ c \in {2, 3}
        /\ Len(s) = c + 5
        /\ AllDigits(SubSeq(s, 1, c - 1))
        /\ AllDigits(SubSeq(s, c + 1, c + 2))
        /\ s[c + 3] = ":"
        /\ AllDigits(SubSeq(s, c + 4, c + 5))

\* /^(\d{1,2}):(\d{2})$/
MatchHMM(s) ==
    LET c == FirstColon(s)
    IN  /\ c \in {2, 3}
        /\ Len(s) = c + 2
        /\ AllDigits(SubSeq(s, 1, c - 1))
        /\ AllDigits(SubSeq(s, c + 1, c + 2))

\* the argument is a string; "" gives null (the empty sequence stands for null here,
\* callers test the result for truthiness only)
normalizeHHMM(v) ==
    IF v = <<>> THEN <<>>
    ELSE LET s == Trim(v)
             c == FirstColon(s)
         IN  IF MatchHMMSS(s) \/ MatchHMM(s)
             THEN pad2(DecVal(SubSeq(s, 1, c - 1))) \o <<":">> \o SubSeq(s, c + 1, c + 2)
             ELSE s

timeToMinutes(hhmm) ==
    LET c == FirstColon(hhmm)
    IN  DecVal(SubSeq(hhmm, 1, c - 1)) * 60 + DecVal(SubSeq(hhmm, c + 1, Len(hhmm)))

minutesToHHMM(total) ==
    LET t == JSRem(JSRem(total, 1440) + 1440, 1440)
    IN  PadStart2(NatToStr(t \div 60)) \o <<":">> \o PadStart2(NatToStr(t % 60))

\* the difference taken without the overnight branch
diffHHMM_NoWrap(start, stop) ==
    LET s == timeToMinutes(start)
        e == timeToMinutes(stop)
    IN  minutesToHHMM(IF e >= s THEN e - s ELSE s - e)

diffHHMM(start, stop) ==
    LET s == timeToMinutes(start)
        e == timeToMinutes(stop)
        diff == IF e >= s THEN e - s ELSE 1440 - s + e
    IN  minutesToHHMM(diff)

(***************************************************************************)
(* Property access and conversions of JavaScript values                    *)
(***************************************************************************)
Get(x, k) == IF k \in DOMAIN x THEN x[k] ELSE Undef

\* a ?? b
Coalesce(a, b) == IF a.t \in {"undef", "null"} THEN b ELSE a

\* String(v)
JSString(v) ==
    CASE v.t = "str" -> v.s
      [] v.t = "num" -> IF v.n < 0 THEN <<"-">> \o NatToStr(0 - v.n) ELSE NatToStr(v.n)
      [] v.t = "nan" -> <<"N", "a", "N">>
      [] v.t = "null" -> <<"n", "u", "l", "l">>
      [] OTHER -> <<"u", "n", "d", "e", "f", "i", "n", "e", "d">>

\* Number(v), for integers in decimal notation
JSNumber(v) ==
    CASE v.t = "num" -> v
      [] v.t = "null" -> Num(0)
      [] v.t = "str" ->
            LET s == Trim(v.s)
            IN  IF s = <<>> THEN Num(0)
                ELSE IF AllDigits(s) THEN Num(DecVal(s))
                ELSE IF s[1] = "-" /\ Len(s) > 1 /\ AllDigits(Tail(s)) THEN Num(0 - DecVal(Tail(s)))
                ELSE NaN
      [] OTHER -> NaN

(***************************************************************************)
(* Plant-operation calculation of MeterValidateService.validateRows        *)
(***************************************************************************)
\* Array.prototype.sort with the comparator a.time - b.time (stable)
RECURSIVE InsertByTime(_, _)
InsertByTime(sorted, p) ==
    IF sorted = <<>> THEN <<p>>
    ELSE IF timeToMinutes(Head(sorted).time) <= timeToMinutes(p.time)
         THEN <<Head(sorted)>> \o InsertByTime(Tail(sorted), p)
         ELSE <<p>> \o sorted

\* the points left in the order the store returned them
SortByTime_StoreOrder(ps) == ps

RECURSIVE SortByTime(_)
SortByTime(ps) == IF ps = <<>> THEN <<>> ELSE InsertByTime(SortByTime(SubSeq(ps, 1, Len(ps) - 1)), ps[Len(ps)])

RECURSIVE FilterPoints(_)
FilterPoints(ps) ==
    IF ps = <<>> THEN <<>>
    ELSE IF isValidHHMM(Head(ps).time) /\ IsNum(Head(ps).poa)
         THEN <<[time |-> Head(ps).time, poa |-> Head(ps).poa.n]>> \o FilterPoints(Tail(ps))
         ELSE FilterPoints(Tail(ps))

ValidatePoint(x) ==
    LET tRaw == Coalesce(Coalesce(Get(x, "Time"), Get(x, "time")), Str(<<>>))
        t == normalizeHHMM(JSString(tRaw))
        poa == JSNumber(Coalesce(Coalesce(Get(x, "POA"), Get(x, "poa")), Undef))
    IN  [time |-> IF t # <<>> THEN Slice5(t) ELSE <<>>, poa |-> poa]

RECURSIVE MapValidatePoint(_)
MapValidatePoint(ws) == IF ws = <<>> THEN <<>> ELSE <<ValidatePoint(Head(ws))>> \o MapValidatePoint(Tail(ws))

ValidatePoints(ws) == SortByTime(FilterPoints(MapValidatePoint(ws)))

Reverse(s) == [i \in 1..Len(s) |-> s[Len(s) + 1 - i]]

\* Array.prototype.find: index of the first element satisfying the test, 0 when none
FindFirst10(ps) == IF \E i \in 1..Len(ps) : ps[i].poa >= 10 THEN CHOOSE i \in 1..Len(ps) : ps[i].poa >= 10 /\ \A j \in 1..(i - 1) : ~(ps[j].poa >= 10) ELSE 0

FindBetween(ps) == IF \E i \in 1..Len(ps) : ps[i].poa > 0 /\ ps[i].poa < 50 THEN CHOOSE i \in 1..Len(ps) : (ps[i].poa > 0 /\ ps[i].poa < 50) /\ \A j \in 1..(i - 1) : ~(ps[j].poa > 0 /\ ps[j].poa < 50) ELSE 0

FindPositive(ps) == IF \E i \in 1..Len(ps) : ps[i].poa > 0 THEN CHOOSE i \in 1..Len(ps) : ps[i].poa > 0 /\ \A j \in 1..(i - 1) : ~(ps[j].poa > 0) ELSE 0

T0000 == <<"0", "0", ":", "0", "0">>

PlantStartTime(points) == IF FindFirst10(points) # 0 THEN points[FindFirst10(points)].time ELSE T0000

\* the band searched from the front of the sorted points
PlantStopTime_Forward(points) ==
    IF FindBetween(points) # 0 THEN points[FindBetween(points)].time
    ELSE IF FindPositive(points) # 0 THEN points[FindPositive(points)].time
    ELSE T0000

PlantStopTime(points) ==
    LET r == Reverse(points)
    IN  IF FindBetween(r) # 0 THEN r[FindBetween(r)].time
        ELSE IF FindPositive(r) # 0 THEN r[FindPositive(r)].time
        ELSE T0000

TotalTime(start, stop) == IF isValidHHMM(start) /\ isValidHHMM(stop) THEN diffHHMM(start, stop) ELSE T0000

(***************************************************************************)
(* Date helpers of the meter validate service                              *)
(***************************************************************************)
MONTHS == <<
    <<"J", "a", "n">>, <<"F", "e", "b">>, <<"M", "a", "r">>, <<"A", "p", "r">>,
    <<"M", "a", "y">>, <<"J", "u", "n">>, <<"J", "u", "l">>, <<"A", "u", "g">>,
    <<"S", "e", "p">>, <<"O", "c", "t">>, <<"N", "o", "v">>, <<"D", "e", "c">> >>

\* /^\d{2}-\d{2}-\d{4}$/
MatchDDMMYYYY(s) ==
    /\ Len(s) = 10
    /\ s[3] = "-" /\ s[6] = "-"
    /\ AllDigits(SubSeq(s, 1, 2)) /\ AllDigits(SubSeq(s, 4, 5)) /\ AllDigits(SubSeq(s, 7, 10))

\* the argument is a JavaScript value
isValidDDMMYYYY(v) == v.t = "str" /\ MatchDDMMYYYY(Trim(v.s))

\* String.prototype.split('-')
RECURSIVE SplitDash(_)
SplitDash(s) ==
    IF \A i \in 1..Len(s) : s[i] # "-" THEN <<s>>
    ELSE LET i == CHOOSE k \in 1..Len(s) : s[k] = "-" /\ \A j \in 1..(k - 1) : s[j] # "-"
         IN  <<SubSeq(s, 1, i - 1)>> \o SplitDash(SubSeq(s, i + 1, Len(s)))

\* the argument is a string that passed isValidDDMMYYYY
ddmmyyyyToISO(ddmmyyyy) ==
    LET parts == SplitDash(ddmmyyyy)
    IN  parts[3] \o <<"-">> \o parts[2] \o <<"-">> \o parts[1]

ddmmyyyyToDDMMMYY(ddmmyyyy) ==
    LET parts == SplitDash(ddmmyyyy)
        mi == DecVal(parts[2])
    IN  IF mi = 0 \/ mi < 1 \/ mi > 12 THEN ddmmyyyy
        ELSE parts[1] \o <<"-">> \o MONTHS[mi] \o <<"-">> \o SubSeq(parts[3], Len(parts[3]) - 1, Len(parts[3]))

\* toNumberOrNull: null for null, undefined and '', NaN for a value that is not a finite number
toNumberOrNull(v) ==
    IF v.t \in {"null", "undef"} \/ (v.t = "str" /\ v.s = <<>>) THEN Null
    ELSE JSNumber(v)

(***************************************************************************)
(* Rows: a row is a sequence of [k, v] entries in key insertion order      *)
(***************************************************************************)
RowKeys(row) == [i \in 1..Len(row) |-> row[i].k]

HasKey(row, key) == \E i \in 1..Len(row) : row[i].k = key

\* row[key], undefined when the key is absent
RowGet(row, key) == IF HasKey(row, key) THEN row[CHOOSE i \in 1..Len(row) : row[i].k = key].v ELSE Undef

\* an assignment that leaves a key the row already has as it is
RowSet_KeepExisting(row, key, value) == IF HasKey(row, key) THEN row ELSE Append(row, [k |-> key, v |-> value])

\* { ...row, [key]: value }: an existing key keeps its place, a new key is appended
RowSet(row, key, value) ==
    IF HasKey(row, key) THEN [i \in 1..Len(row) |-> IF row[i].k = key THEN [k |-> key, v |-> value] ELSE row[i]]
    ELSE Append(row, [k |-> key, v |-> value])

RECURSIVE RowMerge(_, _)
RowMerge(row, entries) == IF entries = <<>> THEN row ELSE RowMerge(RowSet(row, Head(entries).k, Head(entries).v), Tail(entries))

(***************************************************************************)
(* Regular expressions over column names                                   *)
(***************************************************************************)
UpperChars == <<"A", "B", "C", "D", "E", "F", "G", "H", "I", "J", "K", "L", "M", "N", "O", "P", "Q", "R", "S", "T", "U", "V", "W", "X", "Y", "Z">>

LowerChars == <<"a", "b", "c", "d", "e", "f", "g", "h", "i", "j", "k", "l", "m", "n", "o", "p", "q", "r", "s", "t", "u", "v", "w", "x", "y", "z">>

LowerMap == [c \in {UpperChars[i] : i \in 1..26} |-> LowerChars[CHOOSE i \in 1..26 : UpperChars[i] = c]]

\* the i flag: letters compare by their lower-case form
Lower(c) == IF c \in DOMAIN LowerMap THEN LowerMap[c] ELSE c

LowerStr(s) == [i \in 1..Len(s) |-> Lower(s[i])]

\* \w
IsWordChar(c) == c \in Digits \/ c = "_" \/ Lower(c) \in {LowerChars[i] : i \in 1..26}

\* the lower-case literal lit occurs in s at position pos, letters compared without case
LitAt(s, pos, lit) == pos >= 1 /\ pos + Len(lit) - 1 <= Len(s) /\ LowerStr(SubSeq(s, pos, pos + Len(lit) - 1)) = lit

ContainsLit(s, lit) == \E pos \in 1..Len(s) : LitAt(s, pos, lit)

Lit == [
    Export |-> <<"e", "x", "p", "o", "r", "t">>,
    Import |-> <<"i", "m", "p", "o", "r", "t">>,
    Initial |-> <<"i", "n", "i", "t", "i", "a", "l">>,
    Start |-> <<"s", "t", "a", "r", "t">>,
    Final |-> <<"f", "i", "n", "a", "l">>,
    End |-> <<"e", "n", "d">>,
    Gss |-> <<"g", "s", "s">> ]

\* /export|import/ without the i flag
IsReadingKey_CaseSensitive(k) ==
    \E pos \in 1..Len(k) : pos + 5 <= Len(k) /\ SubSeq(k, pos, pos + 5) \in {Lit.Export, Lit.Import}

\* /export|import/i
IsReadingKey(k) == ContainsLit(k, Lit.Export) \/ ContainsLit(k, Lit.Import)

\* /gss/i
IsGssId(id) == ContainsLit(id, Lit.Gss)

\* \s* : the first position at or after pos that holds no blank
RECURSIVE SkipBlanks(_, _)
SkipBlanks(s, pos) == IF pos <= Len(s) /\ s[pos] = " " THEN SkipBlanks(s, pos + 1) ELSE pos

\* \s*(a|b)\b matches at position pos
SuffixAt(s, pos, a, b) ==
    LET q == SkipBlanks(s, pos)
        EndsWord(lit) == LitAt(s, q, lit) /\ (q + Len(lit) > Len(s) \/ ~IsWordChar(s[q + Len(lit)]))
    IN  EndsWord(a) \/ EndsWord(b)

NoMatch == [matched |-> FALSE, id |-> <<>>]

\* k.match(new RegExp(`^${type}\s*(.*?)\s*(a|b)\b`, 'i')): the lazy group is the shortest one
\* after which the suffix matches; the id is (m[1] || '').trim() || '1'
PairMatch(k, type, a, b) ==
    IF ~LitAt(k, 1, type) THEN NoMatch
    ELSE LET p == SkipBlanks(k, Len(type) + 1)
             ends == {e \in p..(Len(k) + 1) : SuffixAt(k, e, a, b)}
         IN  IF ends = {} THEN NoMatch
             ELSE LET e == CHOOSE x \in ends : \A y \in ends : x <= y
                      group == Trim(SubSeq(k, p, e - 1))
                  IN  [matched |-> TRUE, id |-> IF group = <<>> THEN <<"1">> ELSE group]

(***************************************************************************)
(* Column names and messages of MeterValidateService.validateRows          *)
(***************************************************************************)
K == [
    Date |-> <<"D", "a", "t", "e">>,
    StartTime |-> <<"S", "t", "a", "r", "t", " ", "T", "i", "m", "e">>,
    StartTimeNoBlank |-> <<"S", "t", "a", "r", "t", "T", "i", "m", "e">>,
    Start |-> <<"S", "t", "a", "r", "t">>,
    StopTime |-> <<"S", "t", "o", "p", " ", "T", "i", "m", "e">>,
    StopTimeNoBlank |-> <<"S", "t", "o", "p", "T", "i", "m", "e">>,
    Stop |-> <<"S", "t", "o", "p">>,
    PlantStartTime |-> <<"P", "l", "a", "n", "t", " ", "S", "t", "a", "r", "t", " ", "T", "i", "m", "e">>,
    PlantStopTime |-> <<"P", "l", "a", "n", "t", " ", "S", "t", "o", "p", " ", "T", "i", "m", "e">>,
    Total |-> <<"T", "o", "t", "a", "l">>,
    GssExportTotal |-> <<"G", "S", "S", " ", "E", "x", "p", "o", "r", "t", " ", "T", "o", "t", "a", "l">>,
    GssImportTotal |-> <<"G", "S", "S", " ", "I", "m", "p", "o", "r", "t", " ", "T", "o", "t", "a", "l">>,
    NetExportAtGss |-> <<"N", "e", "t", " ", "E", "x", "p", "o", "r", "t", " ", "@", "G", "S", "S">>,
    dateLower |-> <<"d", "a", "t", "e">>,
    Time |-> <<"T", "i", "m", "e">>,
    timeLower |-> <<"t", "i", "m", "e">>,
    POA |-> <<"P", "O", "A">>,
    GHI |-> <<"G", "H", "I">>,
    AlbedoUp |-> <<"A", "l", "b", "e", "d", "o", "U", "p">>,
    AlbedoDown |-> <<"A", "l", "b", "e", "d", "o", "D", "o", "w", "n">>,
    ModuleTemp |-> <<"M", "o", "d", "u", "l", "e", "T", "e", "m", "p">>,
    AmbientTemp |-> <<"A", "m", "b", "i", "e", "n", "t", "T", "e", "m", "p">>,
    WindSpeed |-> <<"W", "i", "n", "d", "S", "p", "e", "e", "d">>,
    Rainfall |-> <<"R", "a", "i", "n", "f", "a", "l", "l">>,
    Humidity |-> <<"H", "u", "m", "i", "d", "i", "t", "y">> ]

TypeExport == <<"E", "x", "p", "o", "r", "t">>

TypeImport == <<"I", "m", "p", "o", "r", "t">>

LabelTotal == <<" ", "T", "o", "t", "a", "l", " ">>

\* a defect message; key is the column name interpolated into the message, if any
Defect(msg, key) == [msg |-> msg, key |-> key]

Msg == [
    DateFormat |-> Defect("Date must be in format DD-MM-YYYY (e.g., 01-12-2024)", <<>>),
    DuplicateDate |-> Defect("No duplicate dates allowed", <<>>),
    StartTime |-> Defect("Start Time must be HH:MM (24-hour)", <<>>),
    StopTime |-> Defect("Stop Time must be HH:MM (24-hour)", <<>>),
    EitherOr |-> Defect("Each date must have either Start/Stop times OR Export/Import readings", <<>>),
    MissingDate |-> Defect("Missing Date", <<>>),
    InvalidDate |-> Defect("Invalid Date format (expected DD-MMM-YY, e.g., 01-Dec-24)", <<>>),
    MissingTime |-> Defect("Missing Time", <<>>),
    InvalidTime |-> Defect("Invalid Time format (expected HH:MM 24-hour, e.g., 09:30)", <<>>),
    DuplicateDateTime |-> Defect("Duplicate Date & Time combination", <<>>) ]

MsgNumeric(k) == Defect("must be numeric", k)

MsgNegative(k) == Defect("cannot be negative", k)

(***************************************************************************)
(* MeterValidateService.validateRows                                       *)
(***************************************************************************)
\* truthiness of a JavaScript value
Truthy(v) ==
    CASE v.t = "str" -> v.s # <<>>
      [] v.t = "num" -> v.n # 0
      [] OTHER -> FALSE

\* a || b
OrElse(a, b) == IF Truthy(a) THEN a ELSE b

\* rows.map(r => typeof r.Date === 'string' ? r.Date.trim() : '').filter(d => d && isValidDDMMYYYY(d)),
\* without repetitions and in order of first occurrence
RECURSIVE UniqueDatesFrom(_, _)
UniqueDatesFrom(rows, acc) ==
    IF rows = <<>> THEN acc
    ELSE LET v == RowGet(Head(rows), K.Date)
             d == IF v.t = "str" THEN Trim(v.s) ELSE <<>>
         IN  IF d # <<>> /\ MatchDDMMYYYY(d) /\ \A i \in 1..Len(acc) : acc[i] # d
             THEN UniqueDatesFrom(Tail(rows), Append(acc, d))
             ELSE UniqueDatesFrom(Tail(rows), acc)

UniqueDates(rows) == UniqueDatesFrom(rows, <<>>)

\* the document satisfies one of { Date: iso }, { Date: ddmmyy }, { date: iso }, { date: ddmmyy }
\* of some unique date
MatchesDateConditions(doc, uniqueDates) ==
    \E i \in 1..Len(uniqueDates) : \E k \in {"Date", "date"} :
        /\ Get(doc, k).t = "str"
        /\ Get(doc, k).s \in {ddmmyyyyToISO(uniqueDates[i]), ddmmyyyyToDDMMMYY(uniqueDates[i])}

\* the unique date under which the grouping loop files the document: the first one whose
\* ISO or DD-MMM-YY form equals w.Date || w.date || '', 0 when there is none
GroupIndex(doc, uniqueDates) ==
    LET dateVal == OrElse(OrElse(Get(doc, "Date"), Get(doc, "date")), Str(<<>>))
        hits == {i \in 1..Len(uniqueDates) :
                    dateVal.t = "str" /\ dateVal.s \in {ddmmyyyyToISO(uniqueDates[i]), ddmmyyyyToDDMMMYY(uniqueDates[i])}}
    IN  IF hits = {} THEN 0 ELSE CHOOSE i \in hits : \A j \in hits : i <= j

RECURSIVE GroupOf(_, _, _)
GroupOf(i, allWeatherRows, uniqueDates) ==
    IF allWeatherRows = <<>> THEN <<>>
    ELSE IF GroupIndex(Head(allWeatherRows), uniqueDates) = i
         THEN <<Head(allWeatherRows)>> \o GroupOf(i, Tail(allWeatherRows), uniqueDates)
         ELSE GroupOf(i, Tail(allWeatherRows), uniqueDates)

\* weatherByDate.get(date) || []
WeatherByDate(date, allWeatherRows, uniqueDates) ==
    IF \E i \in 1..Len(uniqueDates) : uniqueDates[i] = date
    THEN GroupOf(CHOOSE i \in 1..Len(uniqueDates) : uniqueDates[i] = date, allWeatherRows, uniqueDates)
    ELSE <<>>

\* the Map weatherByDate after the grouping loop, as the groups of the unique dates in order
WeatherGroups(allWeatherRows, uniqueDates) ==
    [i \in 1..Len(uniqueDates) |-> WeatherByDate(uniqueDates[i], allWeatherRows, uniqueDates)]

\* normalizeHHMM applied to a JavaScript value; the empty string stands for null
NormalizeTimeValue(v) == IF v.t \in {"null", "undef"} THEN <<>> ELSE normalizeHHMM(JSString(v))

\* a reading loop that ends at the first reading it finds at fault
ReadingDefects_StopAtFirst(row, i) ==
    LET bad == {e \in i..Len(row) :
                   /\ IsReadingKey(row[e].k)
                   /\ toNumberOrNull(row[e].v).t # "null"
                   /\ (toNumberOrNull(row[e].v).t = "nan" \/ toNumberOrNull(row[e].v).n < 0)}
        e == CHOOSE x \in bad : \A y \in bad : x <= y
    IN  IF bad = {} THEN <<>>
        ELSE IF toNumberOrNull(row[e].v).t = "nan" THEN <<MsgNumeric(row[e].k)>> ELSE <<MsgNegative(row[e].k)>>

\* the reading loop over the entries of the row from position i on
RECURSIVE ReadingDefects(_, _)
ReadingDefects(row, i) ==
    IF i > Len(row) THEN <<>>
    ELSE IF ~IsReadingKey(row[i].k) THEN ReadingDefects(row, i + 1)
    ELSE LET n == toNumberOrNull(row[i].v)
         IN  IF n.t = "null" THEN ReadingDefects(row, i + 1)
             ELSE IF n.t = "nan" THEN <<MsgNumeric(row[i].k)>> \o ReadingDefects(row, i + 1)
             ELSE IF n.n < 0 THEN <<MsgNegative(row[i].k)>> \o ReadingDefects(row, i + 1)
             ELSE ReadingDefects(row, i + 1)

HasAnyReading(row) == \E i \in 1..Len(row) : IsReadingKey(row[i].k) /\ toNumberOrNull(row[i].v).t = "num"

\* the trimmed date of the row
RowDate(row) ==
    LET dateRaw == RowGet(row, K.Date)
    IN  IF dateRaw.t = "str" THEN Trim(dateRaw.s) ELSE Trim(JSString(Coalesce(dateRaw, Str(<<>>))))

RowDateValid(row) == RowDate(row) # <<>> /\ MatchDDMMYYYY(RowDate(row))

\* the set of seen dates kept on the service and carried from one invocation to the next
NewSeenDates_Carried ==
    UNION {{RowDate(done[c].rows[i]) : i \in {j \in 1..Len(done[c].rows) : RowDateValid(done[c].rows[j])}} :
              c \in {x \in 1..Len(done) : done[x].svc = "meter"}}

\* const seenDates = new Set<string>()
NewSeenDates == {}

\* rowErrors of one row, given the dates seen in the rows before it
RowErrors(row, seenDates) ==
    LET startTimeUser == NormalizeTimeValue(Coalesce(Coalesce(RowGet(row, K.StartTime), RowGet(row, K.StartTimeNoBlank)), RowGet(row, K.Start)))
        stopTimeUser == NormalizeTimeValue(Coalesce(Coalesce(RowGet(row, K.StopTime), RowGet(row, K.StopTimeNoBlank)), RowGet(row, K.Stop)))
        hasStartStop == startTimeUser # <<>> /\ stopTimeUser # <<>> /\ isValidHHMM(startTimeUser) /\ isValidHHMM(stopTimeUser)
    IN  (IF ~RowDateValid(row) THEN <<Msg.DateFormat>>
         ELSE IF RowDate(row) \in seenDates THEN <<Msg.DuplicateDate>> ELSE <<>>)
        \o (IF startTimeUser # <<>> /\ ~isValidHHMM(startTimeUser) THEN <<Msg.StartTime>> ELSE <<>>)
        \o (IF stopTimeUser # <<>> /\ ~isValidHHMM(stopTimeUser) THEN <<Msg.StopTime>> ELSE <<>>)
        \o ReadingDefects(row, 1)
        \o (IF ~hasStartStop /\ ~HasAnyReading(row) THEN <<Msg.EitherOr>> ELSE <<>>)

\* a Map as a sequence of [id, key] entries: set keeps the place of an existing id
MapSet(map, id, key) ==
    IF \E i \in 1..Len(map) : map[i].id = id
    THEN [i \in 1..Len(map) |-> IF map[i].id = id THEN [id |-> id, key |-> key] ELSE map[i]]
    ELSE Append(map, [id |-> id, key |-> key])

\* the key of the first entry, whatever the id
MapGet_First(map, id) == IF map = <<>> THEN <<>> ELSE map[1].key

MapGet(map, id) == IF \E i \in 1..Len(map) : map[i].id = id THEN map[CHOOSE i \in 1..Len(map) : map[i].id = id].key ELSE <<>>

\* the initials (a, b = initial, start) or finals (final, end) of one type
RECURSIVE PairKeys(_, _, _, _, _, _)
PairKeys(row, i, type, a, b, map) ==
    IF i > Len(row) THEN map
    ELSE LET m == PairMatch(row[i].k, LowerStr(type), a, b)
         IN  PairKeys(row, i + 1, type, a, b, IF m.matched THEN MapSet(map, m.id, row[i].k) ELSE map)

\* the totals { id, value } that computePairs(type) pushes, in the order of initials.entries()
RECURSIVE PairTotals(_, _, _, _)
PairTotals(row, initials, finals, i) ==
    IF i > Len(initials) THEN <<>>
    ELSE LET fk == MapGet(finals, initials[i].id)
             ini == toNumberOrNull(RowGet(row, initials[i].key))
             fin == toNumberOrNull(RowGet(row, fk))
         IN  IF fk = <<>> \/ ini.t # "num" \/ fin.t # "num" THEN PairTotals(row, initials, finals, i + 1)
             ELSE <<[id |-> initials[i].id, value |-> fin.n - ini.n]>> \o PairTotals(row, initials, finals, i + 1)

computePairs(row, type) ==
    PairTotals(row, PairKeys(row, 1, type, Lit.Initial, Lit.Start, <<>>), PairKeys(row, 1, type, Lit.Final, Lit.End, <<>>), 1)

\* computed[`${type} Total ${id}`.trim()] = value, for the totals of one type
ComputedEntries(type, totals) == [i \in 1..Len(totals) |-> [k |-> Trim(type \o LabelTotal \o totals[i].id), v |-> Num(totals[i].value)]]

RECURSIVE SumTotals(_, _)
SumTotals(totals, onlyGss) ==
    IF totals = <<>> THEN 0
    ELSE (IF onlyGss /\ ~IsGssId(Head(totals).id) THEN 0 ELSE Head(totals).value) + SumTotals(Tail(totals), onlyGss)

HasGss(exportTotals, importTotals) ==
    \/ \E i \in 1..Len(exportTotals) : IsGssId(exportTotals[i].id)
    \/ \E i \in 1..Len(importTotals) : IsGssId(importTotals[i].id)

\* the enriched row returned for one row whose weather group is w
EnrichedRow(row, group) ==
    LET valid == RowDateValid(row)
        points == ValidatePoints(group)
        plantStartTime == IF valid THEN PlantStartTime(points) ELSE T0000
        plantStopTime == IF valid THEN PlantStopTime(points) ELSE T0000
        exportTotals == computePairs(row, TypeExport)
        importTotals == computePairs(row, TypeImport)
        hasGss == HasGss(exportTotals, importTotals)
        gssExportTotal == SumTotals(exportTotals, hasGss)
        gssImportTotal == SumTotals(importTotals, hasGss)
    IN  RowMerge(row,
            <<[k |-> K.PlantStartTime, v |-> Str(plantStartTime)],
              [k |-> K.PlantStopTime, v |-> Str(plantStopTime)],
              [k |-> K.Total, v |-> Str(TotalTime(plantStartTime, plantStopTime))]>>
            \o RowMerge(<<>>, ComputedEntries(TypeExport, exportTotals) \o ComputedEntries(TypeImport, importTotals))
            \o <<[k |-> K.GssExportTotal, v |-> Num(gssExportTotal)],
                 [k |-> K.GssImportTotal, v |-> Num(gssImportTotal)],
                 [k |-> K.NetExportAtGss, v |-> Num(gssExportTotal - gssImportTotal)]>>)

\* an entry for every row, with or without defects
PushErrors_Always(errors, rowNumber, rowErrors) == Append(errors, [rowNumber |-> rowNumber, errors |-> rowErrors])

\* if (rowErrors.length) errors.push({ rowNumber, errors: rowErrors })
PushErrors(errors, rowNumber, rowErrors) ==
    IF rowErrors # <<>> THEN Append(errors, [rowNumber |-> rowNumber, errors |-> rowErrors]) ELSE errors

\* a set that remembers the date of the previous row only
AddSeenDate_OnlyLast(row, seenDates) == IF RowDateValid(row) THEN {RowDate(row)} ELSE seenDates

\* seenDates.add(date), reached by the rows whose date is valid
AddSeenDate(row, seenDates) == IF RowDateValid(row) THEN seenDates \cup {RowDate(row)} ELSE seenDates

\* rows.map(...) from row index onwards (1-based here), threading seenDates and errors
RECURSIVE ValidateFrom(_, _, _, _, _, _)
ValidateFrom(rows, index, seenDates, allWeatherRows, uniqueDates, acc) ==
    IF index > Len(rows) THEN [rows |-> acc.rows, errors |-> acc.errors, isValid |-> acc.errors = <<>>]
    ELSE LET row == rows[index]
             rowErrors == RowErrors(row, seenDates)
             group == IF RowDateValid(row) THEN WeatherByDate(RowDate(row), allWeatherRows, uniqueDates) ELSE <<>>
         IN  ValidateFrom(rows, index + 1,
                 AddSeenDate(row, seenDates),
                 allWeatherRows, uniqueDates,
                 [rows |-> Append(acc.rows, EnrichedRow(row, group)),
                  errors |-> PushErrors(acc.errors, index + 1, rowErrors)])

\* validateRows after the await: allWeatherRows is what Weather.find returned
MeterValidateRows(rows, seenDates, allWeatherRows) ==
    ValidateFrom(rows, 1, seenDates, allWeatherRows, UniqueDates(rows), [rows |-> <<>>, errors |-> <<>>])

(***************************************************************************)
(* WeatherValidateService.validateRows                                     *)
(***************************************************************************)
Field == [
    POA |-> <<"P", "O", "A", " ", "P", "y", "r", "a", "n", "o", "m", "e", "t", "e", "r">>,
    GHI |-> <<"G", "H", "I", " ", "P", "y", "r", "a", "n", "o", "m", "e", "t", "e", "r">>,
    AlbedoUp |-> <<"A", "l", "b", "e", "d", "o", " ", "U", "p">>,
    AlbedoDown |-> <<"A", "l", "b", "e", "d", "o", " ", "D", "o", "w", "n">>,
    AmbientTemp |-> <<"A", "m", "b", "i", "e", "n", "t", " ", "T", "e", "m", "p", "e", "r", "a", "t", "u", "r", "e">>,
    WindSpeed |-> <<"W", "i", "n", "d", " ", "S", "p", "e", "e", "d">>,
    Rainfall |-> <<"R", "a", "i", "n", "f", "a", "l", "l">>,
    Humidity |-> <<"H", "u", "m", "i", "d", "i", "t", "y">> ]

UpperMap == [c \in {LowerChars[i] : i \in 1..26} |-> UpperChars[CHOOSE i \in 1..26 : LowerChars[i] = c]]

Upper(c) == IF c \in DOMAIN UpperMap THEN UpperMap[c] ELSE c

IsLetter(c) == Lower(c) \in {LowerChars[i] : i \in 1..26}

\* /^(\d{2})-([A-Za-z]{3})-(\d{2})$/
MatchDDMMMYY(s) ==
    /\ Len(s) = 9
    /\ s[3] = "-" /\ s[7] = "-"
    /\ AllDigits(SubSeq(s, 1, 2)) /\ AllDigits(SubSeq(s, 8, 9))
    /\ \A i \in 4..6 : IsLetter(s[i])

\* m[2].slice(0, 1).toUpperCase() + m[2].slice(1).toLowerCase()
MonthCase(s) == <<Upper(s[4]), Lower(s[5]), Lower(s[6])>>

\* the argument is a string
isValidDDMMMYY(s) ==
    LET t == Trim(s)
    IN  /\ s # <<>>
        /\ MatchDDMMMYY(t)
        /\ DecVal(SubSeq(t, 1, 2)) >= 1 /\ DecVal(SubSeq(t, 1, 2)) <= 31
        /\ \E i \in 1..12 : MONTHS[i] = MonthCase(t)

normalizeDDMMMYY(s) ==
    LET t == Trim(s)
    IN  IF s = <<>> \/ ~MatchDDMMMYY(t) THEN s
        ELSE SubSeq(t, 1, 2) \o <<"-">> \o MonthCase(t) \o <<"-">> \o SubSeq(t, 8, 9)

\* /^([01]\d|2[0-3]):[0-5]\d$/ on the trimmed string
weatherIsValidHHMM(s) ==
    LET t == Trim(s)
    IN  /\ s # <<>>
        /\ MatchHHMM(t)
        /\ DecVal(SubSeq(t, 1, 2)) <= 23
        /\ DecVal(SubSeq(t, 4, 4)) <= 5

\* /^(\d{1,2}):(\d{2})(?::(\d{2}))?$/ : seconds are dropped, the hour is padded
weatherNormalizeHHMM(s) ==
    LET t == Trim(s)
        c == FirstColon(t)
    IN  IF s = <<>> THEN s
        ELSE IF MatchHMM(t) \/ MatchHMMSS(t)
             THEN PadStart2(NatToStr(DecVal(SubSeq(t, 1, c - 1)))) \o <<":">> \o SubSeq(t, c + 1, c + 2)
             ELSE t

MsgRange(min, max) ==
    CASE max = 1500 -> "must be between 0 and 1500"
      [] max = 500 -> "must be between 0 and 500"
      [] max = 200 -> "must be between 0 and 200"
      [] OTHER -> "must be between 0 and 100"

\* checkRange(value, min, max, field, allowZero): the defects it pushes
checkRange(value, min, max, field, allowZero) ==
    IF value.t \in {"null", "undef"} \/ (value.t = "str" /\ value.s = <<>>) THEN <<>>
    ELSE LET num == JSNumber(value)
         IN  IF num.t = "nan" THEN <<Defect("must be a number", field)>>
             ELSE IF ~allowZero /\ num.n = 0 THEN <<Defect("cannot be 0", field)>>
             ELSE IF num.n < min \/ num.n > max THEN <<Defect(MsgRange(min, max), field)>>
             ELSE <<>>

\* the rule of the other columns applied to Module Temperature, zero not allowed
ModuleTempDefects_AsRange(moduleTemp) == checkRange(moduleTemp, 0, 100, <<"M", "o", "d", "u", "l", "e", " ", "T", "e", "m", "p", "e", "r", "a", "t", "u", "r", "e">>, FALSE)

\* the Module Temperature rule
ModuleTempDefects(moduleTemp) ==
    IF moduleTemp.t \in {"null", "undef"} \/ (moduleTemp.t = "str" /\ moduleTemp.s = <<>>) THEN <<>>
    ELSE LET num == JSNumber(moduleTemp)
         IN  IF num.t = "nan" THEN <<Defect("Module Temperature must be a number", <<>>)>>
             ELSE IF num.n = 0 THEN <<Defect("Module Temperature cannot be 0", <<>>)>>
             ELSE IF num.n < 0 THEN <<Defect("Module Temperature cannot be negative", <<>>)>>
             ELSE IF num.n > 100 THEN <<Defect("Module Temperature must be at most 100 C", <<>>)>>
             ELSE <<>>

\* rawDate ? normalizeDDMMMYY(String(rawDate).trim()) : ''
WeatherRowDate(row) ==
    LET rawDate == Coalesce(Coalesce(RowGet(row, K.Date), RowGet(row, K.dateLower)), Str(<<>>))
    IN  IF Truthy(rawDate) THEN normalizeDDMMMYY(Trim(JSString(rawDate))) ELSE <<>>

WeatherRowTime(row) ==
    LET rawTime == Coalesce(Coalesce(RowGet(row, K.Time), RowGet(row, K.timeLower)), Str(<<>>))
    IN  IF Truthy(rawTime) THEN weatherNormalizeHHMM(Trim(JSString(rawTime))) ELSE <<>>

\* the row takes part in the duplicate check
HasDateTimeKey(row) ==
    /\ WeatherRowDate(row) # <<>> /\ WeatherRowTime(row) # <<>>
    /\ isValidDDMMMYY(WeatherRowDate(row)) /\ weatherIsValidHHMM(WeatherRowTime(row))

\* `${date}_${time}`
DateTimeKey_Raw(row) ==
    JSString(Coalesce(RowGet(row, K.Date), RowGet(row, K.dateLower)))
    \o <<"_">> \o JSString(Coalesce(RowGet(row, K.Time), RowGet(row, K.timeLower)))

DateTimeKey(row) == WeatherRowDate(row) \o <<"_">> \o WeatherRowTime(row)

WeatherRowErrors(row, seenDateTime) ==
    (IF WeatherRowDate(row) = <<>> THEN <<Msg.MissingDate>>
     ELSE IF ~isValidDDMMMYY(WeatherRowDate(row)) THEN <<Msg.InvalidDate>> ELSE <<>>)
    \o (IF WeatherRowTime(row) = <<>> THEN <<Msg.MissingTime>>
        ELSE IF ~weatherIsValidHHMM(WeatherRowTime(row)) THEN <<Msg.InvalidTime>> ELSE <<>>)
    \o (IF HasDateTimeKey(row) /\ DateTimeKey(row) \in seenDateTime THEN <<Msg.DuplicateDateTime>> ELSE <<>>)
    \o checkRange(RowGet(row, K.POA), 0, 1500, Field.POA, TRUE)
    \o checkRange(RowGet(row, K.GHI), 0, 1500, Field.GHI, TRUE)
    \o checkRange(RowGet(row, K.AlbedoUp), 0, 1500, Field.AlbedoUp, TRUE)
    \o checkRange(RowGet(row, K.AlbedoDown), 0, 1500, Field.AlbedoDown, TRUE)
    \o ModuleTempDefects(RowGet(row, K.ModuleTemp))
    \o checkRange(RowGet(row, K.AmbientTemp), 0, 100, Field.AmbientTemp, TRUE)
    \o checkRange(RowGet(row, K.WindSpeed), 0, 200, Field.WindSpeed, TRUE)
    \o checkRange(RowGet(row, K.Rainfall), 0, 500, Field.Rainfall, TRUE)
    \o checkRange(RowGet(row, K.Humidity), 0, 100, Field.Humidity, TRUE)

\* { ...row, Date: date || row['Date'], Time: time || row['Time'] }
NormalizedRow(row) ==
    RowMerge(row,
        <<[k |-> K.Date, v |-> IF WeatherRowDate(row) # <<>> THEN Str(WeatherRowDate(row)) ELSE RowGet(row, K.Date)],
          [k |-> K.Time, v |-> IF WeatherRowTime(row) # <<>> THEN Str(WeatherRowTime(row)) ELSE RowGet(row, K.Time)]>>)

\* const seenDateTime = new Set<string>()
NewSeenDateTime == {}

RECURSIVE WeatherValidateFrom(_, _, _, _)
WeatherValidateFrom(rows, index, seenDateTime, acc) ==
    IF index > Len(rows) THEN [rows |-> acc.rows, errors |-> acc.errors, isValid |-> acc.errors = <<>>]
    ELSE LET row == rows[index]
             rowErrors == WeatherRowErrors(row, seenDateTime)
         IN  WeatherValidateFrom(rows, index + 1,
                 IF HasDateTimeKey(row) THEN seenDateTime \cup {DateTimeKey(row)} ELSE seenDateTime,
                 [rows |-> Append(acc.rows, NormalizedRow(row)),
                  errors |-> PushErrors(acc.errors, index + 1, rowErrors)])

WeatherValidateRows(rows, seenDateTime) == WeatherValidateFrom(rows, 1, seenDateTime, [rows |-> <<>>, errors |-> <<>>])

(***************************************************************************)
(* Plant-operation calculation of MeterSubmitService.submitRows            *)
(***************************************************************************)
SubmitPoint(x) ==
    LET tRaw == Coalesce(Coalesce(Get(x, "time"), Get(x, "Time")), Str(<<>>))
        t == normalizeHHMM(JSString(tRaw))
        poa == JSNumber(Coalesce(Coalesce(Get(x, "poa"), Get(x, "POA")), Undef))
    IN  [time |-> IF t # <<>> THEN Slice5(t) ELSE <<>>, poa |-> poa]

RECURSIVE MapSubmitPoint(_)
MapSubmitPoint(ws) == IF ws = <<>> THEN <<>> ELSE <<SubmitPoint(Head(ws))>> \o MapSubmitPoint(Tail(ws))

SubmitPoints(ws) == SortByTime(FilterPoints(MapSubmitPoint(ws)))

(***************************************************************************)
(* Inputs of the plant-operation calculation                               *)
(***************************************************************************)
D01Jun25 == <<"0", "1", "-", "J", "u", "n", "-", "2", "5">>

T0800 == <<"0", "8", ":", "0", "0">>

T900 == <<"9", ":", "0", "0">>

T1730 == <<"1", "7", ":", "3", "0">>

T180015 == <<"1", "8", ":", "0", "0", ":", "1", "5">>

T2500 == <<"2", "5", ":", "0", "0">>

\* irradiances around the thresholds 0, 10 and 50 at two times, and one document each
\* for an early time, a time with seconds, the upper threshold, an hour out of range
\* and a missing POA
WeatherDocs ==
    [date : {Str(D01Jun25)}, time : {Str(T900), Str(T1730)}, poa : {Num(0), Num(9), Num(10), Num(40), Num(60)}]
    \cup {[date |-> Str(D01Jun25), time |-> Str(T0800), poa |-> Num(60)],
          [date |-> Str(D01Jun25), time |-> Str(T180015), poa |-> Num(0)],
          [date |-> Str(D01Jun25), time |-> Str(T1730), poa |-> Num(50)],
          [date |-> Str(D01Jun25), time |-> Str(T2500), poa |-> Num(40)],
          [date |-> Str(D01Jun25), time |-> Str(T0800), poa |-> Undef]}

SeqsUpTo(S, n) == UNION {[1..k -> S] : k \in 0..n}

NoPlant == [op |-> "none", start |-> <<>>, stop |-> <<>>, total |-> <<>>]

NoDiff == [op |-> "none", sh |-> 0, sm |-> 0, eh |-> 0, em |-> 0, total |-> <<>>]

CalcIdle == w = <<>> /\ plant = NoPlant /\ duration = NoDiff

ValidateIdle == calls = <<>> /\ done = <<>>

SubmitIdle == mstore = <<>> /\ subs = <<>> /\ log = <<>>

NoReq == [kind |-> "none", rows |-> <<>>, stale |-> FALSE]

\* no page is mounted
PageIdle == page = [variant |-> "none"] /\ req = NoReq

NoConv == [op |-> "none", input |-> <<>>, out |-> <<>>]

\* no date has been converted
ConvIdle == conv = NoConv

\* the unique index { date: 1, time: 1 } holds of the documents
UniqueDateTime(docs) == \A i, j \in 1..Len(docs) : i # j => docs[i].date # docs[j].date \/ docs[i].time # docs[j].time

InitPlant ==
    /\ w \in {s \in SeqsUpTo(WeatherDocs, MaxSamples) : UniqueDateTime(s)}
    /\ plant = NoPlant
    /\ duration = NoDiff
    /\ wstore = <<>>
    /\ ValidateIdle
    /\ SubmitIdle
    /\ PageIdle
    /\ ConvIdle

\* validateRows, lines 225-270, for a row with a valid date whose weather group is w
ValidateCalc ==
    /\ plant.op = "none"
    /\ \E points \in {ValidatePoints(w)} :
         \E start \in {PlantStartTime(points)}, stop \in {PlantStopTime(points)} :
            plant' = [op |-> "validate", start |-> start, stop |-> stop, total |-> TotalTime(start, stop)]
    /\ UNCHANGED <<w, duration, outsideCalc>>

\* submitRows, lines 181-218, for a row whose pre-fetched weather is w
SubmitCalc ==
    /\ plant.op = "none"
    /\ \E points \in {SubmitPoints(w)} :
         \E start \in {PlantStartTime(points)}, stop \in {PlantStopTime(points)} :
            plant' = [op |-> "submit", start |-> start, stop |-> stop, total |-> TotalTime(start, stop)]
    /\ UNCHANGED <<w, duration, outsideCalc>>

NextPlant == ValidateCalc \/ SubmitCalc

SpecPlant == InitPlant /\ [][NextPlant]_vars

(***************************************************************************)
(* Total operating duration over a grid of valid clock times               *)
(***************************************************************************)
ClockHours == 0..23

ClockMinutes == {0, 1, 30, 59}

InitDiff == CalcIdle /\ wstore = <<>> /\ ValidateIdle /\ SubmitIdle /\ PageIdle /\ ConvIdle

\* validateRows, lines 266-270, for plant times sh:sm and eh:em
DiffCalc ==
    /\ duration.op = "none"
    /\ \E sh \in ClockHours, eh \in ClockHours, sm \in ClockMinutes, em \in ClockMinutes :
        \E start \in {pad2(sh) \o <<":">> \o pad2(sm)}, stop \in {pad2(eh) \o <<":">> \o pad2(em)} :
            /\ duration' = [op |-> "diff", sh |-> sh, sm |-> sm, eh |-> eh, em |-> em, total |-> TotalTime(start, stop)]
            /\ UNCHANGED <<w, plant, outsideCalc>>

NextDiff == DiffCalc

SpecDiff == InitDiff /\ [][NextDiff]_vars

(***************************************************************************)
(* Validation requests against a weather collection                        *)
(***************************************************************************)
MaxRows == 2

MaxStore == 2

MaxCalls == 3

\* documents of 1 June 2025 in both stored forms, of 2 June 2025, and one whose date is
\* kept in the meter sheet's own form
StoreDocs == <<
    [date |-> Str(<<"0", "1", "-", "J", "u", "n", "-", "2", "5">>), time |-> Str(<<"0", "9", ":", "0", "0">>), poa |-> Num(10)],
    [date |-> Str(<<"2", "0", "2", "5", "-", "0", "6", "-", "0", "1">>), time |-> Str(<<"1", "7", ":", "3", "0">>), poa |-> Num(40)],
    [date |-> Str(<<"0", "2", "-", "J", "u", "n", "-", "2", "5">>), time |-> Str(<<"0", "8", ":", "0", "0">>), poa |-> Num(60)],
    [date |-> Str(<<"0", "1", "-", "J", "u", "n", "-", "2", "5">>), time |-> Str(<<"1", "7", ":", "3", "0">>), poa |-> Num(0)],
    [date |-> Str(<<"0", "1", "-", "0", "6", "-", "2", "0", "2", "5">>), time |-> Str(<<"1", "0", ":", "0", "0">>), poa |-> Num(60)] >>

\* the documents of StoreDocs at the indices I, in index order
RECURSIVE PickDocs(_, _)
PickDocs(i, I) ==
    IF i > Len(StoreDocs) THEN <<>>
    ELSE (IF i \in I THEN <<StoreDocs[i]>> ELSE <<>>) \o PickDocs(i + 1, I)

WeatherStores == {PickDocs(1, I) : I \in {J \in SUBSET (1..Len(StoreDocs)) : Cardinality(J) <= MaxStore}}

\* a clean row of 1 June with one export pair
MeterRowExportPair ==
    <<[k |-> <<"D", "a", "t", "e">>, v |-> Str(<<"0", "1", "-", "0", "6", "-", "2", "0", "2", "5">>)],
      [k |-> <<"E", "x", "p", "o", "r", "t", "1", " ", "I", "n", "i", "t", "i", "a", "l">>, v |-> Num(100)],
      [k |-> <<"E", "x", "p", "o", "r", "t", "1", " ", "F", "i", "n", "a", "l">>, v |-> Num(150)]>>

\* a row of 2 June with a Start/Stop pair and no reading
MeterRowStartStop ==
    <<[k |-> <<"D", "a", "t", "e">>, v |-> Str(<<"0", "2", "-", "0", "6", "-", "2", "0", "2", "5">>)],
      [k |-> <<"S", "t", "a", "r", "t", " ", "T", "i", "m", "e">>, v |-> Str(<<"9", ":", "0", "0">>)],
      [k |-> <<"S", "t", "o", "p", " ", "T", "i", "m", "e">>, v |-> Str(<<"1", "7", ":", "3", "0">>)]>>

\* a clean row of 3 June, a date for which no store holds weather
MeterRowNoWeather ==
    <<[k |-> <<"D", "a", "t", "e">>, v |-> Str(<<"0", "3", "-", "0", "6", "-", "2", "0", "2", "5">>)],
      [k |-> <<"I", "m", "p", "o", "r", "t", " ", "I", "n", "i", "t", "i", "a", "l">>, v |-> Num(1)],
      [k |-> <<"I", "m", "p", "o", "r", "t", " ", "F", "i", "n", "a", "l">>, v |-> Num(4)]>>

\* a clean row of 1 June 1925
MeterRowLastCentury ==
    <<[k |-> <<"D", "a", "t", "e">>, v |-> Str(<<"0", "1", "-", "0", "6", "-", "1", "9", "2", "5">>)],
      [k |-> <<"I", "m", "p", "o", "r", "t", " ", "I", "n", "i", "t", "i", "a", "l">>, v |-> Num(1)],
      [k |-> <<"I", "m", "p", "o", "r", "t", " ", "F", "i", "n", "a", "l">>, v |-> Num(4)]>>

\* a row with a malformed date, a malformed start time and a negative reading
MeterRowDefective ==
    <<[k |-> <<"D", "a", "t", "e">>, v |-> Str(<<"1", "-", "6", "-", "2", "0", "2", "5">>)],
      [k |-> <<"S", "t", "a", "r", "t", " ", "T", "i", "m", "e">>, v |-> Str(<<"2", "5", ":", "0", "0">>)],
      [k |-> <<"E", "x", "p", "o", "r", "t", " ", "I", "n", "i", "t", "i", "a", "l">>, v |-> Num(-5)]>>

\* a row of 1 June that carries values under the names of computed columns
MeterRowPrefilled ==
    <<[k |-> <<"D", "a", "t", "e">>, v |-> Str(<<" ", "0", "1", "-", "0", "6", "-", "2", "0", "2", "5", " ">>)],
      [k |-> <<"P", "l", "a", "n", "t", " ", "S", "t", "a", "r", "t", " ", "T", "i", "m", "e">>, v |-> Str(<<"1", "1", ":", "1", "1">>)],
      [k |-> <<"T", "o", "t", "a", "l">>, v |-> Str(<<"9", "9", ":", "9", "9">>)],
      [k |-> <<"G", "S", "S", " ", "E", "x", "p", "o", "r", "t", " ", "T", "o", "t", "a", "l">>, v |-> Num(7)]>>

\* a row of 1 June with a GSS pair, a second pair, a blank and a non-numeric reading
MeterRowGss ==
    <<[k |-> <<"D", "a", "t", "e">>, v |-> Str(<<"0", "1", "-", "0", "6", "-", "2", "0", "2", "5">>)],
      [k |-> <<"E", "x", "p", "o", "r", "t", " ", "G", "S", "S", " ", "I", "n", "i", "t", "i", "a", "l">>, v |-> Num(10)],
      [k |-> <<"E", "x", "p", "o", "r", "t", " ", "G", "S", "S", " ", "F", "i", "n", "a", "l">>, v |-> Num(30)],
      [k |-> <<"E", "x", "p", "o", "r", "t", " ", "2", " ", "S", "t", "a", "r", "t">>, v |-> Num(1)],
      [k |-> <<"E", "x", "p", "o", "r", "t", " ", "2", " ", "E", "n", "d">>, v |-> Num(2)],
      [k |-> <<"I", "m", "p", "o", "r", "t", " ", "G", "S", "S", " ", "I", "n", "i", "t", "i", "a", "l">>, v |-> Str(<<>>)],
      [k |-> <<"I", "m", "p", "o", "r", "t", " ", "X", " ", "I", "n", "i", "t", "i", "a", "l">>, v |-> Str(<<"a", "b", "c">>)]>>

MeterRowTemplates ==
    {MeterRowExportPair, MeterRowStartStop, MeterRowNoWeather, MeterRowLastCentury, MeterRowDefective, MeterRowPrefilled, MeterRowGss}

\* batches of three rows: the dates d, d, e; d, d, d; and e, d, e
TripleBatches == {
    <<MeterRowExportPair, MeterRowPrefilled, MeterRowStartStop>>,
    <<MeterRowExportPair, MeterRowGss, MeterRowExportPair>>,
    <<MeterRowStartStop, MeterRowExportPair, MeterRowStartStop>> }

MeterBatches == SeqsUpTo(MeterRowTemplates, MaxRows) \cup TripleBatches

WeatherRowClean ==
    <<[k |-> <<"D", "a", "t", "e">>, v |-> Str(<<"0", "1", "-", "J", "u", "n", "-", "2", "5">>)],
      [k |-> <<"T", "i", "m", "e">>, v |-> Str(<<"0", "9", ":", "3", "0">>)],
      [k |-> <<"P", "O", "A">>, v |-> Num(100)],
      [k |-> <<"M", "o", "d", "u", "l", "e", "T", "e", "m", "p">>, v |-> Num(25)]>>

\* the same instant written differently, with a Module Temperature of 0
WeatherRowSameInstant ==
    <<[k |-> <<"d", "a", "t", "e">>, v |-> Str(<<"0", "1", "-", "j", "u", "n", "-", "2", "5">>)],
      [k |-> <<"t", "i", "m", "e">>, v |-> Str(<<"9", ":", "3", "0", ":", "0", "0">>)],
      [k |-> <<"P", "O", "A">>, v |-> Num(1600)],
      [k |-> <<"M", "o", "d", "u", "l", "e", "T", "e", "m", "p">>, v |-> Num(0)]>>

\* the batches validated by concurrent requests
CallMeterBatches == {<<MeterRowExportPair>>, <<MeterRowPrefilled, MeterRowExportPair>>}

CallWeatherBatches == {<<WeatherRowClean>>, <<WeatherRowSameInstant, WeatherRowClean>>}

CallStores == {PickDocs(1, {}), PickDocs(1, {1, 2})}

\* all orders in which a query can return the documents s
Orders(s) == {[i \in 1..Len(s) |-> s[p[i]]] : p \in Permutations(1..Len(s))}

RECURSIVE FilterMatching(_, _)
FilterMatching(docs, uniqueDates) ==
    IF docs = <<>> THEN <<>>
    ELSE (IF MatchesDateConditions(Head(docs), uniqueDates) THEN <<Head(docs)>> ELSE <<>>)
         \o FilterMatching(Tail(docs), uniqueDates)

\* Weather.find({ $or: dateConditions }).lean().exec()
WeatherFind(uniqueDates) == Orders(FilterMatching(wstore, uniqueDates))

RemoveAt(s, i) == SubSeq(s, 1, i - 1) \o SubSeq(s, i + 1, Len(s))

\* validateRows of the meter service up to the await of Weather.find
MeterValidateStart(rows) ==
    /\ UniqueDates(rows) # <<>>
    /\ calls' = Append(calls, [svc |-> "meter", rows |-> rows, seenDates |-> NewSeenDates])
    /\ UNCHANGED <<wstore, done, outsideValidate>>

\* validateRows of the meter service from the result of Weather.find to its return
MeterValidateFinish(i) ==
    /\ i \in 1..Len(calls)
    /\ \E allWeatherRows \in WeatherFind(UniqueDates(calls[i].rows)) :
        \E result \in {MeterValidateRows(calls[i].rows, calls[i].seenDates, allWeatherRows)} :
            done' = Append(done, [svc |-> "meter", rows |-> calls[i].rows, result |-> result,
                                  fetched |-> allWeatherRows,
                                  groups |-> WeatherGroups(allWeatherRows, UniqueDates(calls[i].rows))])
    /\ calls' = RemoveAt(calls, i)
    /\ UNCHANGED <<wstore, outsideValidate>>

\* validateRows of the meter service for rows without any valid date: nothing is awaited
MeterValidateNoDates(rows) ==
    /\ UniqueDates(rows) = <<>>
    /\ \E result \in {MeterValidateRows(rows, NewSeenDates, <<>>)} :
        done' = Append(done, [svc |-> "meter", rows |-> rows, result |-> result, fetched |-> <<>>, groups |-> <<>>])
    /\ UNCHANGED <<wstore, calls, outsideValidate>>

\* validateRows of the weather service
WeatherValidate(rows) ==
    /\ \E result \in {WeatherValidateRows(rows, NewSeenDateTime)} :
        done' = Append(done, [svc |-> "weather", rows |-> rows, result |-> result, fetched |-> <<>>, groups |-> <<>>])
    /\ UNCHANGED <<wstore, calls, outsideValidate>>

\* one meter validation request over every batch of up to MaxRows rows
InitMeter ==
    /\ CalcIdle
    /\ wstore \in WeatherStores
    /\ ValidateIdle
    /\ SubmitIdle
    /\ PageIdle
    /\ ConvIdle

\* a single request
NoCallYet == calls = <<>> /\ done = <<>>

NextMeter ==
    \/ \E rows \in MeterBatches : NoCallYet /\ MeterValidateStart(rows)
    \/ \E rows \in MeterBatches : NoCallYet /\ MeterValidateNoDates(rows)
    \/ \E i \in 1..Len(calls) : MeterValidateFinish(i)

SpecMeter == InitMeter /\ [][NextMeter]_vars

\* up to MaxCalls validation requests of both services, interleaved
InitCalls ==
    /\ CalcIdle
    /\ wstore \in CallStores
    /\ ValidateIdle
    /\ SubmitIdle
    /\ PageIdle
    /\ ConvIdle

CanCall == Len(calls) + Len(done) < MaxCalls

NextCalls ==
    \/ \E rows \in CallMeterBatches : CanCall /\ MeterValidateStart(rows)
    \/ \E rows \in CallWeatherBatches : CanCall /\ WeatherValidate(rows)
    \/ \E i \in 1..Len(calls) : MeterValidateFinish(i)

SpecCalls == InitCalls /\ [][NextCalls]_vars

MaxWeatherRows == 3

\* half past ten of the same day
WeatherRowLater ==
    <<[k |-> <<"D", "a", "t", "e">>, v |-> Str(<<"0", "1", "-", "J", "u", "n", "-", "2", "5">>)],
      [k |-> <<"T", "i", "m", "e">>, v |-> Str(<<"1", "0", ":", "3", "0">>)],
      [k |-> <<"P", "O", "A">>, v |-> Num(100)],
      [k |-> <<"M", "o", "d", "u", "l", "e", "T", "e", "m", "p">>, v |-> Num(25)]>>

\* a date that is in no accepted form, at half past nine
WeatherRowBadDate ==
    <<[k |-> <<"D", "a", "t", "e">>, v |-> Str(<<"1", "s", "t", " ", "J", "u", "n", "e">>)],
      [k |-> <<"T", "i", "m", "e">>, v |-> Str(<<"0", "9", ":", "3", "0">>)],
      [k |-> <<"P", "O", "A">>, v |-> Num(100)],
      [k |-> <<"M", "o", "d", "u", "l", "e", "T", "e", "m", "p">>, v |-> Num(25)]>>

\* a row without a time
WeatherRowNoTime ==
    <<[k |-> <<"D", "a", "t", "e">>, v |-> Str(<<"0", "1", "-", "J", "u", "n", "-", "2", "5">>)],
      [k |-> <<"P", "O", "A">>, v |-> Num(100)],
      [k |-> <<"M", "o", "d", "u", "l", "e", "T", "e", "m", "p">>, v |-> Num(25)]>>

WeatherRowTemplates == {WeatherRowClean, WeatherRowSameInstant, WeatherRowLater, WeatherRowBadDate, WeatherRowNoTime}

\* the cells a sheet can hold under ModuleTemp; Undef is a column the row lacks
ModuleTempCells == {Undef, Null, Num(0), Num(0 - 5), Num(1), Num(25), Num(100), Num(101), Str(<<>>), Str(<<"a", "b", "c">>), Str(<<"5", "0">>), Str(<<"-", "1">>), Str(<<"0">>)}

\* a row of 1 June, 09:30, with this Module Temperature
TempRow(moduleTemp) ==
    <<[k |-> K.Date, v |-> Str(<<"0", "1", "-", "J", "u", "n", "-", "2", "5">>)], [k |-> K.Time, v |-> Str(<<"0", "9", ":", "3", "0">>)], [k |-> K.POA, v |-> Num(100)]>>
    \o (IF moduleTemp = Undef THEN <<>> ELSE <<[k |-> K.ModuleTemp, v |-> moduleTemp]>>)

WeatherBatches == SeqsUpTo(WeatherRowTemplates, MaxWeatherRows) \cup {<<TempRow(t)>> : t \in ModuleTempCells}

\* one weather validation request over every batch of up to MaxWeatherRows rows
InitWeather ==
    /\ CalcIdle
    /\ wstore = PickDocs(1, {})
    /\ ValidateIdle
    /\ SubmitIdle
    /\ PageIdle
    /\ ConvIdle

NextWeather == \E rows \in WeatherBatches : NoCallYet /\ WeatherValidate(rows)

SpecWeather == InitWeather /\ [][NextWeather]_vars

\* the cells a sheet can hold under Start Time and Stop Time; Undef is a column the row lacks
StartCells == {Undef, Str(<<"0", "9", ":", "0", "0">>), Str(<<"9", ":", "0", "0">>), Str(<<"2", "5", ":", "0", "0">>), Str(<<>>)}

StopCells == {Undef, Str(<<"1", "7", ":", "3", "0">>), Str(<<"5", "p", "m">>)}

\* the cells under a reading column: numbers, numerals, blanks and words
ReadingCells == {Undef, Null, Num(5), Num(0), Num(0 - 5), Str(<<>>), Str(<<" ">>), Str(<<"a", "b", "c">>), Str(<<"1", "2">>), Str(<<"-", "3">>)}

OtherReadingCells == {Undef, Num(7), Str(<<"x">>)}

KExportInitial == <<"E", "x", "p", "o", "r", "t", " ", "I", "n", "i", "t", "i", "a", "l">>

KImported == <<"k", "W", "h", " ", "I", "M", "P", "O", "R", "T", "E", "D">>

\* a row of 1 June made of these cells
CellRow(start, stop, reading, other) ==
    <<[k |-> K.Date, v |-> Str(<<"0", "1", "-", "0", "6", "-", "2", "0", "2", "5">>)]>>
    \o (IF start = Undef THEN <<>> ELSE <<[k |-> K.StartTime, v |-> start]>>)
    \o (IF stop = Undef THEN <<>> ELSE <<[k |-> K.StopTime, v |-> stop]>>)
    \o (IF reading = Undef THEN <<>> ELSE <<[k |-> KExportInitial, v |-> reading]>>)
    \o (IF other = Undef THEN <<>> ELSE <<[k |-> KImported, v |-> other]>>)

CellRows ==
    {CellRow(start, stop, reading, other) :
        start \in StartCells, stop \in StopCells, reading \in ReadingCells, other \in OtherReadingCells}

\* the columns of a GSS export pair, of the export pair of meter 1 and of an import pair
KPair == [
    GssInitial |-> <<"E", "x", "p", "o", "r", "t", " ", "G", "S", "S", " ", "I", "n", "i", "t", "i", "a", "l">>,
    GssFinal |-> <<"E", "x", "p", "o", "r", "t", " ", "G", "S", "S", " ", "F", "i", "n", "a", "l">>,
    OneInitial |-> <<"E", "x", "p", "o", "r", "t", "1", " ", "I", "n", "i", "t", "i", "a", "l">>,
    OneFinal |-> <<"E", "x", "p", "o", "r", "t", "1", " ", "F", "i", "n", "a", "l">>,
    ImportStart |-> <<"i", "m", "p", "o", "r", "t", " ", "S", "t", "a", "r", "t">>,
    ImportEnd |-> <<"i", "m", "p", "o", "r", "t", " ", "E", "n", "d">> ]

\* a row of 1 June with these cells under the pair columns; Undef is a column the row lacks
PairRow(g1, g2, a, b, c, d) ==
    <<[k |-> K.Date, v |-> Str(<<"0", "1", "-", "0", "6", "-", "2", "0", "2", "5">>)]>>
    \o (IF g1 = Undef THEN <<>> ELSE <<[k |-> KPair.GssInitial, v |-> g1]>>)
    \o (IF g2 = Undef THEN <<>> ELSE <<[k |-> KPair.GssFinal, v |-> g2]>>)
    \o (IF a = Undef THEN <<>> ELSE <<[k |-> KPair.OneInitial, v |-> a]>>)
    \o (IF b = Undef THEN <<>> ELSE <<[k |-> KPair.OneFinal, v |-> b]>>)
    \o (IF c = Undef THEN <<>> ELSE <<[k |-> KPair.ImportStart, v |-> c]>>)
    \o (IF d = Undef THEN <<>> ELSE <<[k |-> KPair.ImportEnd, v |-> d]>>)

PairRows ==
    {PairRow(g1, g2, a, b, c, d) :
        g1 \in {Undef, Str(<<>>), Num(10)}, g2 \in {Undef, Str(<<>>), Num(30)},
        a \in {Undef, Num(100)}, b \in {Undef, Num(150), Str(<<"5">>)},
        c \in {Undef, Num(3)}, d \in {Undef, Num(7), Str(<<"a", "b", "c">>)}}

\* a row with a malformed time and two readings at fault, followed by sound rows
DefectFirstBatches == {
    <<CellRow(Str(<<"2", "5", ":", "0", "0">>), Undef, Num(0 - 5), Str(<<"x">>)), PairRow(Num(10), Num(30), Num(100), Num(150), Num(3), Undef)>>,
    <<CellRow(Str(<<"2", "5", ":", "0", "0">>), Undef, Num(0 - 5), Str(<<"x">>)), MeterRowStartStop, MeterRowDefective>> }

CellBatches == {<<row>> : row \in CellRows \cup PairRows} \cup DefectFirstBatches

\* one meter validation request for a batch of such rows, the weather collection being empty
InitCells ==
    /\ CalcIdle
    /\ wstore = PickDocs(1, {})
    /\ ValidateIdle
    /\ SubmitIdle
    /\ PageIdle
    /\ ConvIdle

NextCells ==
    \/ \E rows \in CellBatches : NoCallYet /\ MeterValidateStart(rows)
    \/ \E i \in 1..Len(calls) : MeterValidateFinish(i)

SpecCells == InitCells /\ [][NextCells]_vars

\* the batches a page uploads and then sends back for re-validation
RevalidateBatches == CellBatches \cup {<<MeterRowExportPair>>, <<MeterRowPrefilled, MeterRowStartStop>>}

\* a validation request, followed by a second one for the rows the first returned
InitRevalidate ==
    /\ CalcIdle
    /\ wstore \in CallStores
    /\ ValidateIdle
    /\ SubmitIdle
    /\ PageIdle
    /\ ConvIdle

NextRevalidate ==
    \/ \E rows \in RevalidateBatches : NoCallYet /\ MeterValidateStart(rows)
    \/ calls = <<>> /\ Len(done) = 1 /\ MeterValidateStart(done[1].result.rows)
    \/ \E i \in 1..Len(calls) : MeterValidateFinish(i)

SpecRevalidate == InitRevalidate /\ [][NextRevalidate]_vars

(***************************************************************************)
(* The collections, their unique index { date: 1, time: 1 } and the write  *)
(* operations the submit services issue                                    *)
(***************************************************************************)
MaxSubmits == 2

\* further column names read by the submit services, and the default status
SK == [
    SiteNameBlank |-> <<"S", "i", "t", "e", " ", "N", "a", "m", "e">>,
    SiteName |-> <<"S", "i", "t", "e", "N", "a", "m", "e">>,
    siteName |-> <<"s", "i", "t", "e", "N", "a", "m", "e">>,
    Site |-> <<"S", "i", "t", "e">>,
    site |-> <<"s", "i", "t", "e">>,
    status |-> <<"s", "t", "a", "t", "u", "s">>,
    Status |-> <<"S", "t", "a", "t", "u", "s">>,
    draft |-> <<"d", "r", "a", "f", "t">>,
    ActiveEnergyImport |-> <<"A", "c", "t", "i", "v", "e", "E", "n", "e", "r", "g", "y", "I", "m", "p", "o", "r", "t">>,
    activeEnergyImport |-> <<"a", "c", "t", "i", "v", "e", "E", "n", "e", "r", "g", "y", "I", "m", "p", "o", "r", "t">>,
    ReactiveEnergyImport |-> <<"R", "e", "a", "c", "t", "i", "v", "e", "E", "n", "e", "r", "g", "y", "I", "m", "p", "o", "r", "t">>,
    reactiveEnergyImport |-> <<"r", "e", "a", "c", "t", "i", "v", "e", "E", "n", "e", "r", "g", "y", "I", "m", "p", "o", "r", "t">>,
    ReactiveEnergyExport |-> <<"R", "e", "a", "c", "t", "i", "v", "e", "E", "n", "e", "r", "g", "y", "E", "x", "p", "o", "r", "t">>,
    reactiveEnergyExport |-> <<"r", "e", "a", "c", "t", "i", "v", "e", "E", "n", "e", "r", "g", "y", "E", "x", "p", "o", "r", "t">>,
    Voltage |-> <<"V", "o", "l", "t", "a", "g", "e">>,
    voltage |-> <<"v", "o", "l", "t", "a", "g", "e">>,
    Current |-> <<"C", "u", "r", "r", "e", "n", "t">>,
    current |-> <<"c", "u", "r", "r", "e", "n", "t">>,
    Frequency |-> <<"F", "r", "e", "q", "u", "e", "n", "c", "y">>,
    frequency |-> <<"f", "r", "e", "q", "u", "e", "n", "c", "y">>,
    PowerFactor |-> <<"P", "o", "w", "e", "r", "F", "a", "c", "t", "o", "r">>,
    powerFactor |-> <<"p", "o", "w", "e", "r", "F", "a", "c", "t", "o", "r">> ]

\* position of the first document matching the filter { date, time }, 0 when there is none
FindKey(store, date, time) ==
    LET hits == {i \in 1..Len(store) : store[i].date = date /\ store[i].time = time}
    IN  IF hits = {} THEN 0 ELSE CHOOSE i \in hits : \A j \in hits : i <= j

\* the update adds the fields the document lacks and leaves the fields it has as they are
ApplySet_OnlyMissing(old, set) == [f \in DOMAIN old \cup DOMAIN set |-> IF f \in DOMAIN old THEN old[f] ELSE set[f]]

\* { $set: doc } applied to a document: the fields of doc replace or extend those of old
ApplySet(old, set) == [f \in DOMAIN old \cup DOMAIN set |-> IF f \in DOMAIN set THEN set[f] ELSE old[f]]

\* the operation inserts a document whether or not one matches the filter
UpdateOneUpsert_AlwaysInsert(store, op) ==
    [store |-> Append(store, ApplySet(op.filter, op.set)), upserted |-> 1, matched |-> 0, modified |-> 0]

\* updateOne { filter, update: { $set }, upsert: true }
UpdateOneUpsert(store, op) ==
    LET i == FindKey(store, op.filter.date, op.filter.time)
    IN  IF i = 0
        THEN [store |-> Append(store, ApplySet(op.filter, op.set)), upserted |-> 1, matched |-> 0, modified |-> 0]
        ELSE [store |-> [store EXCEPT ![i] = ApplySet(store[i], op.set)],
              upserted |-> 0, matched |-> 1,
              modified |-> IF ApplySet(store[i], op.set) = store[i] THEN 0 ELSE 1]

NoCounts == [upserted |-> 0, matched |-> 0, modified |-> 0]

\* the operations applied one after the other in the order given
RECURSIVE BulkWriteFrom(_, _, _)
BulkWriteFrom(store, ops, acc) ==
    IF ops = <<>> THEN [store |-> store, counts |-> acc]
    ELSE LET r == UpdateOneUpsert(store, Head(ops))
         IN  BulkWriteFrom(r.store, Tail(ops),
                 [upserted |-> acc.upserted + r.upserted, matched |-> acc.matched + r.matched,
                  modified |-> acc.modified + r.modified])

\* bulkWrite(ops, { ordered: false }): the server may apply the operations in any order
BulkWrite(store, ops) == {BulkWriteFrom(store, order, NoCounts) : order \in Orders(ops)}

\* insertMany(docs, { ordered: false }) in one order: a document whose key is already
\* indexed is rejected with a duplicate key error, the others are inserted
RECURSIVE InsertManyFrom(_, _, _)
InsertManyFrom(store, docs, writeErrors) ==
    IF docs = <<>> THEN [store |-> store, writeErrors |-> writeErrors]
    ELSE IF FindKey(store, Head(docs).date, Head(docs).time) # 0
         THEN InsertManyFrom(store, Tail(docs), writeErrors + 1)
         ELSE InsertManyFrom(Append(store, Head(docs)), Tail(docs), writeErrors)

InsertMany(store, docs) == {InsertManyFrom(store, order, 0) : order \in Orders(docs)}

(***************************************************************************)
(* WeatherSubmitService.submitRows                                         *)
(***************************************************************************)
\* toNumber: 0 for null, undefined, '' and for a value that is not a number
toNumber(value) ==
    IF value.t \in {"null", "undef"} \/ (value.t = "str" /\ value.s = <<>>) THEN 0
    ELSE IF JSNumber(value).t = "nan" THEN 0 ELSE JSNumber(value).n

\* toText: the trimmed string, the empty sequence standing for null
toText(value) == IF value.t \in {"null", "undef"} THEN <<>> ELSE Trim(JSString(value))

\* row['Date'] ?? row['date']
SubmitDate(row) == Coalesce(RowGet(row, K.Date), RowGet(row, K.dateLower))

\* row['Time'] ?? row['time']
SubmitTime(row) == Coalesce(RowGet(row, K.Time), RowGet(row, K.timeLower))

\* the row is not skipped: !date || !time is false
HasDateAndTime(row) == Truthy(SubmitDate(row)) /\ Truthy(SubmitTime(row))

\* the schema fields mapped from a row
WeatherFields(row) ==
    [date |-> SubmitDate(row),
     time |-> SubmitTime(row),
     poa |-> Num(toNumber(RowGet(row, K.POA))),
     ghi |-> Num(toNumber(RowGet(row, K.GHI))),
     albedoUp |-> Num(toNumber(RowGet(row, K.AlbedoUp))),
     albedoDown |-> Num(toNumber(RowGet(row, K.AlbedoDown))),
     moduleTemp |-> Num(toNumber(RowGet(row, K.ModuleTemp))),
     ambientTemp |-> Num(toNumber(RowGet(row, K.AmbientTemp))),
     windSpeed |-> Num(toNumber(RowGet(row, K.WindSpeed))),
     rainfall |-> Num(toNumber(RowGet(row, K.Rainfall))),
     humidity |-> Num(toNumber(RowGet(row, K.Humidity)))]

\* the document the upsert variant sets: the fields, the status and, when present, the site name
UpsertDoc(row) ==
    LET siteName == toText(Coalesce(Coalesce(Coalesce(Coalesce(RowGet(row, SK.SiteNameBlank), RowGet(row, SK.SiteName)),
                                    RowGet(row, SK.siteName)), RowGet(row, SK.Site)), RowGet(row, SK.site)))
        doc == ApplySet(WeatherFields(row),
                        [status |-> Coalesce(Coalesce(RowGet(row, SK.status), RowGet(row, SK.Status)), Str(SK.draft))])
    IN  IF siteName # <<>> THEN ApplySet(doc, [siteName |-> Str(siteName)]) ELSE doc

\* the document the insert variant pushes; the schema default gives it the status 'draft'
InsertDoc(row) == ApplySet(WeatherFields(row), [status |-> Str(SK.draft)])

RECURSIVE UpsertOps(_)
UpsertOps(rows) ==
    IF rows = <<>> THEN <<>>
    ELSE (IF HasDateAndTime(Head(rows))
          THEN <<[filter |-> [date |-> SubmitDate(Head(rows)), time |-> SubmitTime(Head(rows))], set |-> UpsertDoc(Head(rows))]>>
          ELSE <<>>) \o UpsertOps(Tail(rows))

Stores == [w |-> wstore, m |-> mstore]

\* every invocation in flight has now overlapped with another one
Overlapped == [i \in 1..Len(subs) |-> [subs[i] EXCEPT !.alone = FALSE]]

\* submitRows of the upsert variant: the rows become upsert operations, one bulkWrite applies them
WeatherSubmit(rows) ==
    /\ \E ops \in {UpsertOps(rows)} :
        \E r \in (IF ops = <<>> THEN {[store |-> wstore, counts |-> NoCounts]} ELSE BulkWrite(wstore, ops)) :
            /\ wstore' = r.store
            /\ log' = Append(log, [svc |-> "weather", rows |-> rows, pre |-> Stores,
                                   post |-> [w |-> r.store, m |-> mstore], threw |-> "none",
                                   counts |-> [inserted |-> r.counts.upserted, updated |-> r.counts.modified,
                                               skipped |-> Len(rows) - Len(ops)],
                                   alone |-> subs = <<>>])
    /\ subs' = Overlapped
    /\ UNCHANGED <<mstore, outsideSubmit>>

\* submitRows of the insert variant up to the first await
LegacySubmitStart(rows) ==
    /\ rows # <<>>
    /\ subs' = Append(Overlapped, [svc |-> "legacy", rows |-> rows, i |-> 1, docs |-> <<>>, skipped |-> 0,
                                   weather |-> <<>>, alone |-> subs = <<>>])
    /\ UNCHANGED <<wstore, mstore, log, outsideSubmit>>

\* weatherModel.exists({ $or: [{ date, time }, { Date: date, Time: time }] })
Exists(date, time) ==
    \E i \in 1..Len(wstore) :
        \/ Get(wstore[i], "date") = date /\ Get(wstore[i], "time") = time
        \/ Get(wstore[i], "Date") = date /\ Get(wstore[i], "Time") = time

\* one turn of the loop over the rows: skip, or await exists and then skip or push
LegacyCheckRow(s) ==
    /\ s \in 1..Len(subs)
    /\ subs[s].svc = "legacy"
    /\ subs[s].i <= Len(subs[s].rows)
    /\ \E row \in {subs[s].rows[subs[s].i]} :
        subs' = [subs EXCEPT ![s] =
                    IF ~HasDateAndTime(row) \/ Exists(SubmitDate(row), SubmitTime(row))
                    THEN [@ EXCEPT !.i = @ + 1, !.skipped = @ + 1]
                    ELSE [@ EXCEPT !.i = @ + 1, !.docs = Append(@, InsertDoc(row))]]
    /\ UNCHANGED <<wstore, mstore, log, outsideSubmit>>

\* after the loop: insertMany of the pushed documents, then the return of the counts
LegacyInsertMany(s) ==
    /\ s \in 1..Len(subs)
    /\ subs[s].svc = "legacy"
    /\ subs[s].i > Len(subs[s].rows)
    /\ \E r \in (IF subs[s].docs = <<>> THEN {[store |-> wstore, writeErrors |-> 0]} ELSE InsertMany(wstore, subs[s].docs)) :
        /\ wstore' = r.store
        /\ log' = Append(log, [svc |-> "legacy", rows |-> subs[s].rows, pre |-> Stores,
                               post |-> [w |-> r.store, m |-> mstore],
                               threw |-> IF r.writeErrors > 0 THEN "E11000" ELSE "none",
                               counts |-> [inserted |-> Len(subs[s].docs), updated |-> 0, skipped |-> subs[s].skipped],
                               alone |-> subs[s].alone])
    /\ subs' = RemoveAt(subs, s)
    /\ UNCHANGED <<mstore, outsideSubmit>>

(***************************************************************************)
(* WeatherService.getWeatherByDate and MeterSubmitService.submitRows       *)
(***************************************************************************)
RECURSIVE Dedup(_, _)
Dedup(seq, acc) ==
    IF seq = <<>> THEN acc
    ELSE Dedup(Tail(seq), IF \E i \in 1..Len(acc) : acc[i] = Head(seq) THEN acc ELSE Append(acc, Head(seq)))

\* MONTHS.findIndex(m => m.toLowerCase() === monthName.toLowerCase()) + 1, 0 when not found
MonthIndexOf(monthName) ==
    IF \E i \in 1..12 : LowerStr(MONTHS[i]) = LowerStr(monthName)
    THEN CHOOSE i \in 1..12 : LowerStr(MONTHS[i]) = LowerStr(monthName)
    ELSE 0

getDateVariations(date) ==
    LET fromMeter ==
            IF MatchDDMMYYYY(date) /\ DecVal(SubSeq(date, 4, 5)) - 1 >= 0 /\ DecVal(SubSeq(date, 4, 5)) - 1 < 12
            THEN <<SubSeq(date, 1, 2) \o <<"-">> \o MONTHS[DecVal(SubSeq(date, 4, 5))] \o <<"-">> \o SubSeq(date, 9, 10),
                   SubSeq(date, 7, 10) \o <<"-">> \o SubSeq(date, 4, 5) \o <<"-">> \o SubSeq(date, 1, 2)>>
            ELSE <<>>
        fromWeather ==
            IF MatchDDMMMYY(date) /\ MonthIndexOf(SubSeq(date, 4, 6)) > 0
            THEN <<SubSeq(date, 1, 2) \o <<"-">> \o PadStart2(NatToStr(MonthIndexOf(SubSeq(date, 4, 6)))) \o <<"-", "2", "0">> \o SubSeq(date, 8, 9),
                   <<"2", "0">> \o SubSeq(date, 8, 9) \o <<"-">> \o PadStart2(NatToStr(MonthIndexOf(SubSeq(date, 4, 6)))) \o <<"-">> \o SubSeq(date, 1, 2)>>
            ELSE <<>>
    IN  Dedup(<<date>> \o fromMeter \o fromWeather, <<>>)

RECURSIVE FilterByVariations(_, _)
FilterByVariations(docs, variations) ==
    IF docs = <<>> THEN <<>>
    ELSE (IF \E i \in 1..Len(variations) : Get(Head(docs), "date") = Str(variations[i]) \/ Get(Head(docs), "Date") = Str(variations[i])
          THEN <<Head(docs)>> ELSE <<>>) \o FilterByVariations(Tail(docs), variations)

\* the documents of the collection stored under any variation of the date, in insertion order
getWeatherByDate(date) == FilterByVariations(wstore, getDateVariations(date))

\* String(r?.Date ?? r?.date ?? '').trim()
MeterSubmitDate(r) == Trim(JSString(Coalesce(Coalesce(RowGet(r, K.Date), RowGet(r, K.dateLower)), Str(<<>>))))

\* String(r?.Time ?? r?.time ?? '00:00').trim()
MeterSubmitTime(r) == Trim(JSString(Coalesce(Coalesce(RowGet(r, K.Time), RowGet(r, K.timeLower)), Str(T0000))))

RECURSIVE SubmitDatesFrom(_)
SubmitDatesFrom(rows) ==
    IF rows = <<>> THEN <<>>
    ELSE (IF MeterSubmitDate(Head(rows)) # <<>> THEN <<MeterSubmitDate(Head(rows))>> ELSE <<>>) \o SubmitDatesFrom(Tail(rows))

UniqueSubmitDates(rows) == Dedup(SubmitDatesFrom(rows), <<>>)

\* num(v) ?? 0
NumOrZero(v) ==
    IF v.t \in {"null", "undef"} \/ (v.t = "str" /\ v.s = <<>>) THEN 0
    ELSE IF JSNumber(v).t = "num" THEN JSNumber(v).n ELSE 0

\* weatherByDate.get(date) || []
PrefetchedWeather(weather, date) ==
    IF \E i \in 1..Len(weather) : weather[i].date = date
    THEN weather[CHOOSE i \in 1..Len(weather) : weather[i].date = date].weatherData
    ELSE <<>>

\* the document of one row
MeterDoc(r, weather) ==
    LET points == SubmitPoints(PrefetchedWeather(weather, MeterSubmitDate(r)))
        plantStartTime == PlantStartTime(points)
        plantStopTime == PlantStopTime(points)
    IN  [date |-> Str(MeterSubmitDate(r)),
         time |-> Str(MeterSubmitTime(r)),
         plantStartTime |-> Str(plantStartTime),
         plantStopTime |-> Str(plantStopTime),
         total |-> Str(TotalTime(plantStartTime, plantStopTime)),
         activeEnergyImport |-> Num(NumOrZero(Coalesce(RowGet(r, SK.ActiveEnergyImport), RowGet(r, SK.activeEnergyImport)))),
         activeEnergyExport |-> Num(NumOrZero(RowGet(r, K.GssExportTotal))),
         reactiveEnergyImport |-> Num(NumOrZero(Coalesce(RowGet(r, SK.ReactiveEnergyImport), RowGet(r, SK.reactiveEnergyImport)))),
         reactiveEnergyExport |-> Num(NumOrZero(Coalesce(RowGet(r, SK.ReactiveEnergyExport), RowGet(r, SK.reactiveEnergyExport)))),
         voltage |-> Num(NumOrZero(Coalesce(RowGet(r, SK.Voltage), RowGet(r, SK.voltage)))),
         current |-> Num(NumOrZero(Coalesce(RowGet(r, SK.Current), RowGet(r, SK.current)))),
         frequency |-> Num(NumOrZero(Coalesce(RowGet(r, SK.Frequency), RowGet(r, SK.frequency)))),
         powerFactor |-> Num(NumOrZero(Coalesce(RowGet(r, SK.PowerFactor), RowGet(r, SK.powerFactor)))),
         status |-> Coalesce(Coalesce(RowGet(r, SK.status), RowGet(r, SK.Status)), Str(SK.draft))]

MeterOps(rows, weather) ==
    [i \in 1..Len(rows) |->
        [filter |-> [date |-> Str(MeterSubmitDate(rows[i])), time |-> Str(MeterSubmitTime(rows[i]))],
         set |-> MeterDoc(rows[i], weather)]]

\* if (!date) throw new BadRequestException('Each row must contain Date')
SomeRowLacksDate(rows) == \E i \in 1..Len(rows) : MeterSubmitDate(rows[i]) = <<>>

\* submitRows up to the await of the weather of every date of the batch
MeterSubmitStart(rows) ==
    /\ UniqueSubmitDates(rows) # <<>>
    /\ \E uniqueDates \in {UniqueSubmitDates(rows)} :
        subs' = Append(Overlapped,
                    [svc |-> "meter", rows |-> rows, i |-> 1, docs |-> <<>>, skipped |-> 0,
                     weather |-> [d \in 1..Len(uniqueDates) |-> [date |-> uniqueDates[d], weatherData |-> getWeatherByDate(uniqueDates[d])]],
                     alone |-> subs = <<>>])
    /\ UNCHANGED <<wstore, mstore, log, outsideSubmit>>

\* submitRows from the pre-fetched weather on: the operations are built, which throws for
\* a row without a date, and one bulkWrite applies them
MeterSubmitFinish(s) ==
    /\ s \in 1..Len(subs)
    /\ subs[s].svc = "meter"
    /\ IF SomeRowLacksDate(subs[s].rows)
       THEN /\ log' = Append(log, [svc |-> "meter", rows |-> subs[s].rows, pre |-> Stores, post |-> Stores,
                                   threw |-> "BadRequest", counts |-> NoCounts, alone |-> subs[s].alone])
            /\ UNCHANGED mstore
       ELSE \E r \in BulkWrite(mstore, MeterOps(subs[s].rows, subs[s].weather)) :
            /\ mstore' = r.store
            /\ log' = Append(log, [svc |-> "meter", rows |-> subs[s].rows, pre |-> Stores,
                                   post |-> [w |-> wstore, m |-> r.store], threw |-> "none",
                                   counts |-> r.counts, alone |-> subs[s].alone])
    /\ subs' = RemoveAt(subs, s)
    /\ UNCHANGED <<wstore, outsideSubmit>>

\* submitRows for rows none of which has a date: nothing is awaited before the throw
MeterSubmitNoDates(rows) ==
    /\ rows # <<>>
    /\ UniqueSubmitDates(rows) = <<>>
    /\ log' = Append(log, [svc |-> "meter", rows |-> rows, pre |-> Stores, post |-> Stores,
                           threw |-> "BadRequest", counts |-> NoCounts, alone |-> subs = <<>>])
    /\ subs' = Overlapped
    /\ UNCHANGED <<wstore, mstore, outsideSubmit>>

(***************************************************************************)
(* Submissions to both collections                                         *)
(***************************************************************************)
SubmitRowA ==
    <<[k |-> <<"D", "a", "t", "e">>, v |-> Str(<<"0", "1", "-", "J", "u", "n", "-", "2", "5">>)],
      [k |-> <<"T", "i", "m", "e">>, v |-> Str(<<"0", "9", ":", "0", "0">>)],
      [k |-> <<"P", "O", "A">>, v |-> Num(10)]>>

\* the instant of SubmitRowA with another irradiance
SubmitRowB ==
    <<[k |-> <<"D", "a", "t", "e">>, v |-> Str(<<"0", "1", "-", "J", "u", "n", "-", "2", "5">>)],
      [k |-> <<"T", "i", "m", "e">>, v |-> Str(<<"0", "9", ":", "0", "0">>)],
      [k |-> <<"P", "O", "A">>, v |-> Num(40)]>>

SubmitRowC ==
    <<[k |-> <<"D", "a", "t", "e">>, v |-> Str(<<"0", "1", "-", "J", "u", "n", "-", "2", "5">>)],
      [k |-> <<"T", "i", "m", "e">>, v |-> Str(<<"1", "7", ":", "3", "0">>)],
      [k |-> <<"P", "O", "A">>, v |-> Num(40)]>>

SubmitRowNoDate ==
    <<[k |-> <<"T", "i", "m", "e">>, v |-> Str(<<"1", "0", ":", "0", "0">>)],
      [k |-> <<"P", "O", "A">>, v |-> Num(5)]>>

\* single rows, two instants, one instant twice with different and with equal values, and
\* a row without a date
WeatherSubmitBatches ==
    {<<SubmitRowA>>, <<SubmitRowB, SubmitRowC>>, <<SubmitRowA, SubmitRowB>>, <<SubmitRowNoDate, SubmitRowC>>,
     <<SubmitRowC, SubmitRowC>>}

MeterSubmitRow1 ==
    <<[k |-> <<"D", "a", "t", "e">>, v |-> Str(<<"0", "1", "-", "0", "6", "-", "2", "0", "2", "5">>)],
      [k |-> <<"G", "S", "S", " ", "E", "x", "p", "o", "r", "t", " ", "T", "o", "t", "a", "l">>, v |-> Num(50)]>>

\* the date of MeterSubmitRow1 with another total
MeterSubmitRow2 ==
    <<[k |-> <<"D", "a", "t", "e">>, v |-> Str(<<"0", "1", "-", "0", "6", "-", "2", "0", "2", "5">>)],
      [k |-> <<"G", "S", "S", " ", "E", "x", "p", "o", "r", "t", " ", "T", "o", "t", "a", "l">>, v |-> Num(70)]>>

MeterSubmitRow3 ==
    <<[k |-> <<"D", "a", "t", "e">>, v |-> Str(<<"0", "2", "-", "0", "6", "-", "2", "0", "2", "5">>)],
      [k |-> <<"T", "i", "m", "e">>, v |-> Str(<<"1", "2", ":", "0", "0">>)]>>

MeterSubmitRowNoDate ==
    <<[k |-> <<"G", "S", "S", " ", "E", "x", "p", "o", "r", "t", " ", "T", "o", "t", "a", "l">>, v |-> Num(5)]>>

MeterSubmitBatches ==
    {<<MeterSubmitRow1>>, <<MeterSubmitRow2, MeterSubmitRow3>>, <<MeterSubmitRow1, MeterSubmitRow2>>,
     <<MeterSubmitRowNoDate, MeterSubmitRow3>>, <<MeterSubmitRowNoDate>>}

\* an empty weather collection, or one that holds the instant of SubmitRowA already
SubmitStores == {<<>>, <<InsertDoc(SubmitRowB)>>}

InitSubmit ==
    /\ CalcIdle
    /\ ValidateIdle
    /\ wstore \in SubmitStores
    /\ SubmitIdle
    /\ PageIdle
    /\ ConvIdle

CanSubmit == Len(subs) + Len(log) < MaxSubmits

NextSubmit ==
    \/ \E rows \in WeatherSubmitBatches : CanSubmit /\ WeatherSubmit(rows)
    \/ \E rows \in WeatherSubmitBatches : CanSubmit /\ LegacySubmitStart(rows)
    \/ \E rows \in MeterSubmitBatches : CanSubmit /\ MeterSubmitStart(rows)
    \/ \E rows \in MeterSubmitBatches : CanSubmit /\ MeterSubmitNoDates(rows)
    \/ \E s \in 1..Len(subs) : LegacyCheckRow(s)
    \/ \E s \in 1..Len(subs) : LegacyInsertMany(s)
    \/ \E s \in 1..Len(subs) : MeterSubmitFinish(s)

SpecSubmit == InitSubmit /\ [][NextSubmit]_vars

(***************************************************************************)
(* One date passing through validation and submission                      *)
(***************************************************************************)
MaxPasses == 2

\* the row of 1 June that also carries values for the derived columns and a Start/Stop pair
MeterRowUserTimes ==
    <<[k |-> <<"D", "a", "t", "e">>, v |-> Str(<<"0", "1", "-", "0", "6", "-", "2", "0", "2", "5">>)],
      [k |-> <<"E", "x", "p", "o", "r", "t", "1", " ", "I", "n", "i", "t", "i", "a", "l">>, v |-> Num(100)],
      [k |-> <<"E", "x", "p", "o", "r", "t", "1", " ", "F", "i", "n", "a", "l">>, v |-> Num(150)],
      [k |-> <<"P", "l", "a", "n", "t", " ", "S", "t", "a", "r", "t", " ", "T", "i", "m", "e">>, v |-> Str(<<"1", "1", ":", "1", "1">>)],
      [k |-> <<"P", "l", "a", "n", "t", " ", "S", "t", "o", "p", " ", "T", "i", "m", "e">>, v |-> Str(<<"1", "2", ":", "1", "2">>)],
      [k |-> <<"T", "o", "t", "a", "l">>, v |-> Str(<<"9", "9", ":", "9", "9">>)],
      [k |-> <<"S", "t", "a", "r", "t", " ", "T", "i", "m", "e">>, v |-> Str(<<"0", "7", ":", "0", "0">>)],
      [k |-> <<"S", "t", "o", "p", " ", "T", "i", "m", "e">>, v |-> Str(<<"0", "8", ":", "0", "0">>)]>>

PassBatches ==
    {<<MeterRowExportPair>>, <<MeterRowUserTimes>>, <<MeterRowExportPair, MeterRowUserTimes>>,
     <<MeterRowLastCentury, MeterRowExportPair>>, <<MeterRowLastCentury, MeterRowUserTimes>>}

\* no weather, weather of 1 June in two stored forms, two samples of the same minute, and
\* a sample stored under the meter sheet's own form of the date
PassStores == {PickDocs(1, {}), PickDocs(1, {1, 2}), PickDocs(1, {2, 4}), PickDocs(1, {1, 5})}

InitPasses ==
    /\ CalcIdle
    /\ wstore \in PassStores
    /\ ValidateIdle
    /\ SubmitIdle
    /\ PageIdle
    /\ ConvIdle

CanPass == Len(calls) + Len(done) + Len(subs) + Len(log) < MaxPasses

NextPasses ==
    \/ \E rows \in PassBatches : CanPass /\ MeterValidateStart(rows)
    \/ \E i \in 1..Len(calls) : MeterValidateFinish(i)
    \/ \E rows \in PassBatches : CanPass /\ MeterSubmitStart(rows)
    \/ \E s \in 1..Len(subs) : MeterSubmitFinish(s)

SpecPasses == InitPasses /\ [][NextPasses]_vars

(***************************************************************************)
(* Date conversions between the meter and the weather dialect              *)
(***************************************************************************)
\* the days, months and years of the meter dates converted; every one passes isValidDDMMYYYY
DateDays == {1, 15, 31}

DateMonths == 1..13

DateYears == {1925, 2000, 2025, 2099, 2125}

MeterDate(dd, mm, yyyy) == pad2(dd) \o <<"-">> \o pad2(mm) \o <<"-">> \o NatToStr(yyyy)

\* the YYYY-MM-DD member of getDateVariations(ddmmmyy), the empty string when there is none
VariationISO(ddmmmyy) ==
    LET variations == getDateVariations(ddmmmyy)
    IN  IF MatchDDMMMYY(ddmmmyy) /\ Len(variations) = 3 THEN variations[3] ELSE <<>>

\* a meter date is converted to DD-MMM-YY, that result to ISO, and the date to ISO directly
RoundTrip ==
    /\ \E dd \in DateDays, mm \in DateMonths, yyyy \in DateYears :
        \E d \in {MeterDate(dd, mm, yyyy)} :
            /\ isValidDDMMYYYY(Str(d))
            /\ conv' = [op |-> "roundTrip", input |-> d,
                        out |-> <<ddmmyyyyToDDMMMYY(d), VariationISO(ddmmyyyyToDDMMMYY(d)), ddmmyyyyToISO(d)>>]
    /\ UNCHANGED outsideDates

\* String.prototype.split on any of the characters seps
RECURSIVE SplitOn(_, _)
SplitOn(s, seps) ==
    IF \A i \in 1..Len(s) : s[i] \notin seps THEN <<s>>
    ELSE LET i == CHOOSE k \in 1..Len(s) : s[k] \in seps /\ \A j \in 1..(k - 1) : s[j] \notin seps
         IN  <<SubSeq(s, 1, i - 1)>> \o SplitOn(SubSeq(s, i + 1, Len(s)), seps)

AllLetters(s) == \A i \in 1..Len(s) : IsLetter(s[i])

\* /^(\d{1,2})\/([A-Za-z]{3})\/(\d{2,4})$/ : the three groups, <<>> when there is no match
MatchDayMonYear(str) ==
    LET parts == SplitOn(str, {"/"})
    IN  IF /\ Len(parts) = 3
           /\ Len(parts[1]) \in 1..2 /\ AllDigits(parts[1])
           /\ Len(parts[2]) = 3 /\ AllLetters(parts[2])
           /\ Len(parts[3]) \in 2..4 /\ AllDigits(parts[3])
        THEN parts ELSE <<>>

\* /^(\d{1,2})[\/\-](\d{1,2})[\/\-](\d{2,4})$/ : the three groups, <<>> when there is no match
MatchDayMonthYear(str) ==
    LET parts == SplitOn(str, {"/", "-"})
    IN  IF /\ Len(parts) = 3
           /\ Len(parts[1]) \in 1..2 /\ AllDigits(parts[1])
           /\ Len(parts[2]) \in 1..2 /\ AllDigits(parts[2])
           /\ Len(parts[3]) \in 2..4 /\ AllDigits(parts[3])
        THEN parts ELSE <<>>

\* String.prototype.slice(-2)
SliceLast2(s) == IF Len(s) <= 2 THEN s ELSE SubSeq(s, Len(s) - 1, Len(s))

\* match[3].length === 2 ? `20${match[3]}` : match[3]
FullYear(y) == IF Len(y) = 2 THEN <<"2", "0">> \o y ELSE y

\* MeterExcelService.normalizeDate
meterNormalizeDate(value) ==
    IF ~Truthy(value) THEN <<>>
    ELSE LET str == Trim(JSString(value))
             match1 == MatchDayMonYear(str)
             match2 == MatchDayMonthYear(str)
         IN  IF MatchDDMMYYYY(str) THEN str
             ELSE IF match1 # <<>>
                  THEN PadStart2(match1[1]) \o <<"-">>
                       \o (IF MonthIndexOf(match1[2]) > 0 THEN pad2(MonthIndexOf(match1[2])) ELSE <<"0", "1">>)
                       \o <<"-">> \o FullYear(match1[3])
             ELSE IF match2 # <<>>
                  THEN PadStart2(match2[1]) \o <<"-">> \o PadStart2(match2[2]) \o <<"-">> \o FullYear(match2[3])
             ELSE str

\* WeatherExcelService.normalizeDate
weatherNormalizeDate(value) ==
    IF ~Truthy(value) THEN <<>>
    ELSE LET str == Trim(JSString(value))
             match1 == MatchDayMonYear(str)
             match2 == MatchDayMonthYear(str)
         IN  IF MatchDDMMMYY(str) THEN str
             ELSE IF match1 # <<>>
                  THEN PadStart2(match1[1]) \o <<"-">> \o <<Upper(match1[2][1]), Lower(match1[2][2]), Lower(match1[2][3])>> \o <<"-">> \o SliceLast2(match1[3])
             ELSE IF match2 # <<>>
                  THEN PadStart2(match2[1]) \o <<"-">>
                       \o (IF DecVal(match2[2]) \in 1..12 THEN MONTHS[DecVal(match2[2])] ELSE MONTHS[1])
                       \o <<"-">> \o SliceLast2(match2[3])
             ELSE str

\* the cell values read from the date column of a sheet
RawDates == {
    <<"0", "1", "-", "0", "6", "-", "2", "0", "2", "5">>,
    <<"1", "/", "J", "u", "n", "/", "2", "5">>,
    <<"2", "2", "/", "j", "u", "n", "/", "2", "0", "2", "5">>,
    <<"2", "2", "/", "X", "y", "z", "/", "2", "5">>,
    <<"2", "2", "/", "1", "3", "/", "2", "0", "2", "5">>,
    <<"2", "2", "/", "0", "0", "/", "2", "0", "2", "5">>,
    <<"1", "-", "6", "-", "2", "5">>,
    <<"5", "/", "6", "/", "2", "0", "2", "5">>,
    <<" ", "5", "/", "6", "/", "2", "0", "2", "5", " ">>,
    <<"0", "1", "-", "D", "e", "c", "-", "2", "4">>,
    <<"2", "2", "-", "X", "y", "z", "-", "2", "5">>,
    <<"2", "0", "2", "5", "-", "0", "6", "-", "0", "1">>,
    <<"h", "e", "l", "l", "o">>,
    <<"2", "2", "/", "J", "u", "n", "/", "5">>,
    <<"1", "/", "2", "/", "3", "/", "4">>,
    <<>> }

\* normalizeDate of the meter sheet reader on one cell value
MeterNormalizeDate ==
    /\ \E raw \in RawDates : conv' = [op |-> "meterNormalize", input |-> raw, out |-> <<meterNormalizeDate(Str(raw))>>]
    /\ UNCHANGED outsideDates

\* normalizeDate of the weather sheet reader on one cell value
WeatherNormalizeDate ==
    /\ \E raw \in RawDates : conv' = [op |-> "weatherNormalize", input |-> raw, out |-> <<weatherNormalizeDate(Str(raw))>>]
    /\ UNCHANGED outsideDates

InitDates ==
    /\ CalcIdle
    /\ wstore = <<>>
    /\ ValidateIdle
    /\ SubmitIdle
    /\ PageIdle
    /\ ConvIdle

NextDates == RoundTrip \/ MeterNormalizeDate \/ WeatherNormalizeDate

SpecDates == InitDates /\ [][NextDates]_vars

(***************************************************************************)
(* The weather upload page (WeatherUploadPage) and the server behind it    *)
(***************************************************************************)
\* a sheet whose irradiance is out of range
WeatherRowOutOfRange ==
    <<[k |-> <<"D", "a", "t", "e">>, v |-> Str(<<"0", "1", "-", "J", "u", "n", "-", "2", "5">>)],
      [k |-> <<"T", "i", "m", "e">>, v |-> Str(<<"1", "0", ":", "3", "0">>)],
      [k |-> <<"P", "O", "A">>, v |-> Num(1600)]>>

\* the rows the server parses from the files the user can choose
Files == <<
    <<WeatherRowClean>>,
    <<WeatherRowOutOfRange>> >>

\* the values typed into a cell
CellValues == {Str(<<"1", "0">>), Str(<<"1", "6", "0", "0">>)}

\* the page as first rendered; edited records that a cell was changed since the last
\* applied validation, raced that a cell was changed while the upload or validate request
\* last sent was in flight; variant "effect" is the page that recalculates isValid in
\* a useEffect on [data, errors], variant "plain" the page without that effect
NewPage(variant) ==
    [variant |-> variant, file |-> 0, data |-> <<>>, errors |-> <<>>, isValid |-> FALSE,
     loading |-> FALSE, phase |-> "idle", success |-> FALSE, edited |-> FALSE, raced |-> FALSE]

\* useEffect(() => { if (data.length > 0) setIsValid(errors.length === 0) }, [data, errors]),
\* run after a render in which data or errors changed
RunEffect(p) ==
    IF p.variant = "effect" /\ Len(p.data) > 0 THEN [p EXCEPT !.isValid = (p.errors = <<>>)] ELSE p

\* FileDropzone onChange
ChooseFile(f) ==
    /\ page.variant # "none"
    /\ ~page.loading
    /\ page.file # f
    /\ page' = [page EXCEPT !.file = f]
    /\ UNCHANGED <<req, wstore, outsidePage>>

\* handleUpload up to the await of fetch
HandleUpload ==
    /\ page.variant # "none"
    /\ ~page.loading
    /\ page.file # 0
    /\ page' = [page EXCEPT !.loading = TRUE, !.phase = "upload", !.success = FALSE, !.raced = FALSE]
    /\ req' = [kind |-> "upload", rows |-> Files[page.file], stale |-> FALSE]
    /\ UNCHANGED <<wstore, outsidePage>>

\* the server validates the parsed rows and returns them with the errors; handleUpload
\* applies the response, or only leaves the loading phase when the request failed
UploadResponse(ok) ==
    /\ req.kind = "upload"
    /\ \E result \in {WeatherValidateRows(req.rows, NewSeenDateTime)} :
        page' = IF ok
                THEN RunEffect([page EXCEPT !.data = req.rows, !.errors = result.errors, !.isValid = result.isValid,
                                            !.edited = FALSE, !.loading = FALSE, !.phase = "idle"])
                ELSE [page EXCEPT !.loading = FALSE, !.phase = "idle"]
    /\ req' = NoReq
    /\ UNCHANGED <<wstore, outsidePage>>

\* handleCellChange, followed by the effect of the render it causes
HandleCellChange(rowIndex, columnKey, value) ==
    /\ page.variant # "none"
    /\ rowIndex \in 1..Len(page.data)
    /\ RowGet(page.data[rowIndex], columnKey) # value
    /\ page' = RunEffect([page EXCEPT !.data = [@ EXCEPT ![rowIndex] = RowSet(@, columnKey, value)],
                                      !.isValid = FALSE, !.success = FALSE, !.edited = TRUE,
                                      !.raced = req.kind \in {"upload", "validate"}])
    /\ UNCHANGED <<req, wstore, outsidePage>>

\* handleRevalidate up to the await of fetch
HandleRevalidate ==
    /\ page.variant # "none"
    /\ ~page.loading
    /\ page.data # <<>>
    /\ page' = [page EXCEPT !.loading = TRUE, !.phase = "validate", !.success = FALSE, !.raced = FALSE]
    /\ req' = [kind |-> "validate", rows |-> page.data, stale |-> FALSE]
    /\ UNCHANGED <<wstore, outsidePage>>

\* the response leaves the rows on the page as they are
EnrichedOrShown_KeepsShown(enrichedRows, data) == data

\* if (enrichedRows.length > 0) setData(enrichedRows)
EnrichedOrShown(enrichedRows, data) == IF Len(enrichedRows) > 0 THEN enrichedRows ELSE data

\* the server validates the rows sent; handleRevalidate applies the response
ValidateResponse(ok) ==
    /\ req.kind = "validate"
    /\ \E result \in {WeatherValidateRows(req.rows, NewSeenDateTime)} :
        page' = IF ok
                THEN RunEffect([page EXCEPT !.data = EnrichedOrShown(result.rows, page.data),
                                            !.errors = result.errors, !.isValid = result.isValid,
                                            !.edited = FALSE, !.loading = FALSE, !.phase = "idle"])
                ELSE [page EXCEPT !.loading = FALSE, !.phase = "idle"]
    /\ req' = NoReq
    /\ UNCHANGED <<wstore, outsidePage>>

\* handleSubmit up to the await of fetch: it returns early without rows or when not valid
HandleSubmit ==
    /\ page.variant # "none"
    /\ ~page.loading
    /\ page.data # <<>>
    /\ page.isValid
    /\ page' = [page EXCEPT !.loading = TRUE, !.phase = "submit", !.raced = FALSE]
    /\ req' = [kind |-> "submit", rows |-> page.data, stale |-> page.edited]
    /\ UNCHANGED <<wstore, outsidePage>>

\* a success that leaves the rows, the errors and the validity on the page
ClearedForm_KeepsRows(p) == [p EXCEPT !.success = TRUE, !.file = 0]

\* setSuccess(result); setData([]); setErrors([]); setIsValid(false); setFile(null)
ClearedForm(p) == [p EXCEPT !.success = TRUE, !.data = <<>>, !.errors = <<>>, !.isValid = FALSE, !.file = 0]

\* the server upserts the rows; handleSubmit clears the form on success and changes
\* nothing but the loading phase on failure
SubmitResponse(ok) ==
    /\ req.kind = "submit"
    /\ IF ok
       THEN /\ \E ops \in {UpsertOps(req.rows)} :
                \E r \in (IF ops = <<>> THEN {[store |-> wstore, counts |-> NoCounts]} ELSE BulkWrite(wstore, ops)) :
                    wstore' = r.store
            /\ page' = RunEffect([ClearedForm(page) EXCEPT !.loading = FALSE, !.phase = "idle"])
       ELSE /\ page' = [page EXCEPT !.loading = FALSE, !.phase = "idle"]
            /\ UNCHANGED wstore
    /\ req' = NoReq
    /\ UNCHANGED outsidePage

InitPage ==
    /\ CalcIdle
    /\ ValidateIdle
    /\ SubmitIdle
    /\ wstore = <<>>
    /\ page \in {NewPage("plain"), NewPage("effect")}
    /\ req = NoReq
    /\ ConvIdle

NextPage ==
    \/ \E f \in 1..Len(Files) : ChooseFile(f)
    \/ HandleUpload
    \/ \E ok \in BOOLEAN : UploadResponse(ok)
    \/ \E rowIndex \in 1..Len(page.data), value \in CellValues : HandleCellChange(rowIndex, K.POA, value)
    \/ HandleRevalidate
    \/ \E ok \in BOOLEAN : ValidateResponse(ok)
    \/ HandleSubmit
    \/ \E ok \in BOOLEAN : SubmitResponse(ok)

SpecPage == InitPage /\ [][NextPage]_vars

(***************************************************************************)
(* Claims                                                                  *)
(***************************************************************************)
\* the samples that survive the discard step and satisfy P, by index; pts[i] is the
\* normalised form of the i-th document the store returned
QualifyingSamples(pts, P(_)) ==
    {i \in 1..Len(pts) : isValidHHMM(pts[i].time) /\ IsNum(pts[i].poa) /\ P(pts[i].poa.n)}

IsEarliestOf(t, pts, q) == \E i \in q : t = pts[i].time /\ \A j \in q : timeToMinutes(pts[i].time) <= timeToMinutes(pts[j].time)

IsLatestOf(t, pts, q) == \E i \in q : t = pts[i].time /\ \A j \in q : timeToMinutes(pts[i].time) >= timeToMinutes(pts[j].time)

AtLeast10(p) == p >= 10

InBand(p) == p > 0 /\ p < 50

Positive(p) == p > 0

TwoDigits(n) == <<DigitChars[(n \div 10) + 1], DigitChars[(n % 10) + 1]>>

\* C9: the total is (stop - start) modulo 1440 minutes as zero-padded HH:MM, so it is
\* never negative, lies in 00:00..23:59 and wraps forward when stop is before start.
C9_TotalIsDifferenceMod1440 ==
    duration.op = "diff" =>
        LET d == ((duration.eh * 60 + duration.em) - (duration.sh * 60 + duration.sm)) % 1440
        IN  /\ d \in 0..1439
            /\ duration.total = TwoDigits(d \div 60) \o <<":">> \o TwoDigits(d % 60)

\* start 17:30, stop 09:01: the total wraps to 15:31
C9_Witness ==
    /\ duration.op = "diff"
    /\ duration.sh = 17 /\ duration.sm = 30 /\ duration.eh = 9 /\ duration.em = 1
    /\ duration.total = <<"1", "5", ":", "3", "1">>

\* /^\d{4}-\d{2}-\d{2}$/
MatchISO(s) ==
    /\ Len(s) = 10
    /\ s[5] = "-" /\ s[8] = "-"
    /\ AllDigits(SubSeq(s, 1, 4)) /\ AllDigits(SubSeq(s, 6, 7)) /\ AllDigits(SubSeq(s, 9, 10))

\* the calendar date <<day, month, year>> a date string denotes: DD-MM-YYYY, ISO, or
\* DD-MMM-YY with the year 20YY; <<0, 0, 0>> for any other string
CalendarDate(s) ==
    IF MatchDDMMYYYY(s) THEN <<DecVal(SubSeq(s, 1, 2)), DecVal(SubSeq(s, 4, 5)), DecVal(SubSeq(s, 7, 10))>>
    ELSE IF MatchISO(s) THEN <<DecVal(SubSeq(s, 9, 10)), DecVal(SubSeq(s, 6, 7)), DecVal(SubSeq(s, 1, 4))>>
    ELSE IF MatchDDMMMYY(s) /\ MonthIndexOf(SubSeq(s, 4, 6)) > 0
         THEN <<DecVal(SubSeq(s, 1, 2)), MonthIndexOf(SubSeq(s, 4, 6)), 2000 + DecVal(SubSeq(s, 8, 9))>>
    ELSE <<0, 0, 0>>

\* the stored date is the ISO or DD-MMM-YY form of the meter date d
EquivalentForm(stored, d) ==
    /\ stored.t = "str"
    /\ MatchISO(stored.s) \/ MatchDDMMMYY(stored.s)
    /\ CalendarDate(stored.s) = CalendarDate(d)

\* the documents of the weather collection whose date is an equivalent form of d
RECURSIVE CorrelatedFrom(_, _)
CorrelatedFrom(docs, d) ==
    IF docs = <<>> THEN <<>>
    ELSE (IF EquivalentForm(Head(docs).date, d) THEN <<Head(docs)>> ELSE <<>>)
         \o CorrelatedFrom(Tail(docs), d)

\* the defects reported for the i-th row of a batch
DefectsOfRow(result, i) ==
    IF \E e \in 1..Len(result.errors) : result.errors[e].rowNumber = i + 1
    THEN result.errors[CHOOSE e \in 1..Len(result.errors) : result.errors[e].rowNumber = i + 1].errors
    ELSE <<>>

\* the messages about the row's own data
RowDataMessages ==
    {Msg.DuplicateDate.msg, Msg.StartTime.msg, Msg.StopTime.msg, Msg.EitherOr.msg, "must be numeric", "cannot be negative"}

\* C10: a meter row for whose calendar date the collection holds no weather is still
\* processed: its plant start, stop and total are 00:00, it gets no defect for the missing
\* weather (a clean row gets none at all), and the other rows of the batch get the start
\* and stop of their own weather.
C10_NoWeatherRowStillProcessed ==
    \A c \in 1..Len(done) :
        done[c].svc = "meter" =>
            \E rows \in {done[c].rows}, out \in {done[c].result} :
                /\ Len(out.rows) = Len(rows)
                /\ \A i \in 1..Len(rows) :
                    RowDateValid(rows[i]) =>
                        \E pts \in {MapValidatePoint(CorrelatedFrom(wstore, RowDate(rows[i])))} :
                            IF pts = <<>>
                            THEN /\ RowGet(out.rows[i], K.PlantStartTime) = Str(T0000)
                                 /\ RowGet(out.rows[i], K.PlantStopTime) = Str(T0000)
                                 /\ RowGet(out.rows[i], K.Total) = Str(T0000)
                                 /\ \A m \in 1..Len(DefectsOfRow(out, i)) : DefectsOfRow(out, i)[m].msg \in RowDataMessages
                                 /\ (rows[i] = MeterRowNoWeather /\ \A j \in 1..(i - 1) : RowDate(rows[j]) # RowDate(rows[i]))
                                        => DefectsOfRow(out, i) = <<>>
                            ELSE \E q \in {QualifyingSamples(pts, AtLeast10)}, pos \in {QualifyingSamples(pts, Positive)} :
                                 /\ q # {} => IsEarliestOf(RowGet(out.rows[i], K.PlantStartTime).s, pts, q)
                                 /\ pos = {} => RowGet(out.rows[i], K.PlantStopTime) = Str(T0000)

\* the row of 3 June comes first and has no weather, the row of 1 June has 09:00 and 17:30:
\* the batch is valid, the first row shows 00:00 and the second 09:00 to 17:30
C10_Witness ==
    /\ wstore = PickDocs(1, {1, 2})
    /\ Len(done) = 1
    /\ done[1].rows = <<MeterRowNoWeather, MeterRowExportPair>>
    /\ done[1].result.isValid
    /\ RowGet(done[1].result.rows[1], K.Total) = Str(T0000)
    /\ RowGet(done[1].result.rows[2], K.PlantStartTime) = Str(<<"0", "9", ":", "0", "0">>)
    /\ RowGet(done[1].result.rows[2], K.PlantStopTime) = Str(T1730)

\* a duplicate defect of the i-th row has an earlier row of the same batch as its cause
DuplicateHasCause(c, i) ==
    IF done[c].svc = "meter"
    THEN (\E m \in 1..Len(DefectsOfRow(done[c].result, i)) : DefectsOfRow(done[c].result, i)[m] = Msg.DuplicateDate)
            => \E j \in 1..(i - 1) : RowDate(done[c].rows[j]) = RowDate(done[c].rows[i])
    ELSE (\E m \in 1..Len(DefectsOfRow(done[c].result, i)) : DefectsOfRow(done[c].result, i)[m] = Msg.DuplicateDateTime)
            => \E j \in 1..(i - 1) : HasDateTimeKey(done[c].rows[j]) /\ DateTimeKey(done[c].rows[j]) = DateTimeKey(done[c].rows[i])

\* C6: validate keeps no state between invocations: with the weather collection unchanged,
\* two invocations of the same service on the same rows, one after the other or interleaved
\* with other validations, return the same rows, errors and isValid, and a row is reported
\* as a duplicate only because of an earlier row of its own batch.
C6_ValidateIsDeterministic ==
    /\ \A a, b \in 1..Len(done) :
        (done[a].svc = done[b].svc /\ done[a].rows = done[b].rows) => done[a].result = done[b].result
    /\ \A c \in 1..Len(done) : \A i \in 1..Len(done[c].rows) : DuplicateHasCause(c, i)

\* two validations of the batch with a repeated date have completed with the same result
\* while the validation of another batch is waiting for its weather
C6_Witness ==
    /\ wstore = PickDocs(1, {1, 2})
    /\ Len(calls) = 1 /\ calls[1].rows = <<MeterRowExportPair>>
    /\ Len(done) = 2
    /\ done[1].rows = <<MeterRowPrefilled, MeterRowExportPair>>
    /\ done[2].rows = done[1].rows
    /\ done[1].result = done[2].result
    /\ DefectsOfRow(done[1].result, 2) = <<Msg.DuplicateDate>>

\* the collection an invocation of the service writes to, taken from a pair of stores
StoreOf(svc, stores) == IF svc = "meter" THEN stores.m ELSE stores.w

\* the date and time columns of a submitted row as written in the sheet; a meter row
\* without a Time column is stored under 00:00
SheetDate(row) == RowGet(row, K.Date)

SheetTime(svc, row) == IF HasKey(row, K.Time) THEN RowGet(row, K.Time) ELSE IF svc = "meter" THEN Str(T0000) ELSE Undef

HasSheetKey(svc, row) == SheetDate(row).t = "str" /\ SheetTime(svc, row).t = "str"

\* the value a row carries for its record
SheetValue(svc, row) ==
    IF svc = "meter" THEN (IF HasKey(row, K.GssExportTotal) THEN RowGet(row, K.GssExportTotal) ELSE Num(0))
    ELSE RowGet(row, K.POA)

StoredValue(svc, doc) == IF svc = "meter" THEN doc.activeEnergyExport ELSE doc.poa

\* the positions of the documents stored under the key of the row
PositionsOf(svc, store, row) == {j \in 1..Len(store) : store[j].date = SheetDate(row) /\ store[j].time = SheetTime(svc, row)}

\* the keys of the rows of a batch
SheetKeys(svc, rows) == {<<SheetDate(rows[i]), SheetTime(svc, rows[i])>> : i \in {j \in 1..Len(rows) : HasSheetKey(svc, rows[j])}}

StoredKeys(store) == {<<store[j].date, store[j].time>> : j \in 1..Len(store)}

UpsertCompleted(e) == log[e].svc \in {"weather", "meter"} /\ log[e].threw = "none"

C3_SubmitNeverThrowsOnDuplicate == \A e \in 1..Len(log) : log[e].threw # "E11000"

\* C4: a submit of a batch with a row that lacks a date does not fail; the row is not
\* persisted and every other row of the batch is upserted under its (date, time).
C4_RowWithoutDateIsSkipped ==
    \A e \in 1..Len(log) :
        (log[e].svc \in {"weather", "meter"} /\ \E i \in 1..Len(log[e].rows) : SheetDate(log[e].rows[i]).t # "str") =>
            \E svc \in {log[e].svc}, rows \in {log[e].rows}, post \in {StoreOf(log[e].svc, log[e].post)} :
                /\ log[e].threw = "none"
                /\ \A j \in 1..Len(post) : Truthy(post[j].date)
                /\ \A i \in 1..Len(rows) : HasSheetKey(svc, rows[i]) => PositionsOf(svc, post, rows[i]) # {}

\* the weather submit skipped the row without a date and upserted the other row
C4_WeatherSkips ==
    /\ Len(log) >= 1
    /\ log[1].svc = "weather"
    /\ log[1].rows = <<SubmitRowNoDate, SubmitRowC>>
    /\ log[1].threw = "none"
    /\ log[1].counts.skipped = 1
    /\ PositionsOf("weather", log[1].post.w, SubmitRowC) # {}

\* every key of the batch belongs to one row only
KeysOccurOnce(svc, rows) ==
    \A i, j \in 1..Len(rows) :
        (i # j /\ HasSheetKey(svc, rows[i]) /\ HasSheetKey(svc, rows[j]))
            => SheetDate(rows[i]) # SheetDate(rows[j]) \/ SheetTime(svc, rows[i]) # SheetTime(svc, rows[j])

C1_NoSubmitOfUnvalidatedEdit == req.kind = "submit" => ~req.stale

\* the page without the effect refuses to submit after an edit until a validation has passed
C1_PlainPageRefuses == (page.variant = "plain" /\ req.kind = "submit") => ~req.stale

\* on the page without the effect an edited batch was re-validated and is being submitted
C1_PlainPageSubmitsAfterRevalidation ==
    /\ page.variant = "plain"
    /\ req.kind = "submit"
    /\ RowGet(req.rows[1], K.POA) = Str(<<"1", "0">>)
    /\ ~req.stale

\* the derived values validate attached to the i-th row of a completed request
AttachedTimes(c, i) ==
    <<RowGet(done[c].result.rows[i], K.PlantStartTime), RowGet(done[c].result.rows[i], K.PlantStopTime),
      RowGet(done[c].result.rows[i], K.Total)>>

\* the derived values a completed submit persisted under the key of its i-th row
PersistedTimes(e, i) ==
    LET doc == log[e].post.m[FindKey(log[e].post.m, Str(MeterSubmitDate(log[e].rows[i])), Str(MeterSubmitTime(log[e].rows[i])))]
    IN  <<doc.plantStartTime, doc.plantStopTime, doc.total>>

\* C11: over one weather collection, any two rows of the same date get the same plant
\* start, stop and total, from validate and from submit, in one request or in two, whatever
\* the rows carry under Plant Start Time, Plant Stop Time, Total, Start Time or Stop Time.
C11_DerivedTimesIgnoreUserValues ==
    /\ \A c1, c2 \in 1..Len(done) :
        \A i \in 1..Len(done[c1].rows), j \in 1..Len(done[c2].rows) :
            (RowDateValid(done[c1].rows[i]) /\ RowDate(done[c1].rows[i]) = RowDate(done[c2].rows[j]))
                => AttachedTimes(c1, i) = AttachedTimes(c2, j)
    /\ \A e1, e2 \in 1..Len(log) :
        \A i \in 1..Len(log[e1].rows), j \in 1..Len(log[e2].rows) :
            (log[e1].threw = "none" /\ log[e2].threw = "none"
             /\ MeterSubmitDate(log[e1].rows[i]) = MeterSubmitDate(log[e2].rows[j]))
                => PersistedTimes(e1, i) = PersistedTimes(e2, j)

\* the columns a user can fill in for the derived values and the Start/Stop pair
UserTimeColumns == {K.PlantStartTime, K.PlantStopTime, K.Total, K.StartTime, K.StopTime}

\* the row without those columns
RECURSIVE WithoutUserTimes(_)
WithoutUserTimes(row) ==
    IF row = <<>> THEN <<>>
    ELSE (IF Head(row).k \in UserTimeColumns THEN <<>> ELSE <<Head(row)>>) \o WithoutUserTimes(Tail(row))

\* two batches that differ only in the values of those columns get the same derived values
\* row by row, from validate and from submit
C11_UserValuesDoNotInterfere ==
    /\ \A c1, c2 \in 1..Len(done) :
        (/\ Len(done[c1].rows) = Len(done[c2].rows)
         /\ \A i \in 1..Len(done[c1].rows) : WithoutUserTimes(done[c1].rows[i]) = WithoutUserTimes(done[c2].rows[i]))
            => \A i \in 1..Len(done[c1].rows) : AttachedTimes(c1, i) = AttachedTimes(c2, i)
    /\ \A e1, e2 \in 1..Len(log) :
        (/\ Len(log[e1].rows) = Len(log[e2].rows)
         /\ \A i \in 1..Len(log[e1].rows) : WithoutUserTimes(log[e1].rows[i]) = WithoutUserTimes(log[e2].rows[i]))
            => \A i \in 1..Len(log[e1].rows) : PersistedTimes(e1, i) = PersistedTimes(e2, i)

\* the row with user times was validated in one batch with the plain row, and submitted:
\* both rows show 09:00 to 17:30 and the stored record does too
C11_Witness ==
    /\ wstore = PickDocs(1, {1, 2})
    /\ Len(done) = 1 /\ Len(log) = 1
    /\ done[1].rows = <<MeterRowExportPair, MeterRowUserTimes>>
    /\ AttachedTimes(1, 2) = <<Str(<<"0", "9", ":", "0", "0">>), Str(T1730), Str(<<"0", "8", ":", "3", "0">>)>>
    /\ AttachedTimes(1, 1) = AttachedTimes(1, 2)
    /\ log[1].rows = <<MeterRowUserTimes>>
    /\ PersistedTimes(1, 1) = AttachedTimes(1, 2)

\* the group of the k-th unique date of request c holds the fetched samples of that date
\* and no other sample
GroupIsExact(c, k) ==
    LET d == UniqueDates(done[c].rows)[k]
        group == done[c].groups[k]
    IN  /\ \A f \in 1..Len(done[c].fetched) :
            EquivalentForm(done[c].fetched[f].date, d) => \E g \in 1..Len(group) : group[g] = done[c].fetched[f]
        /\ \A g \in 1..Len(group) : EquivalentForm(group[g].date, d)

\* C12: for every distinct valid date of a meter batch the weather group looked up for it
\* holds every fetched sample stored under an equivalent form of the date and no sample of
\* another date.
C12_GroupsHoldTheirDateOnly ==
    \A c \in 1..Len(done) : \A k \in 1..Len(done[c].groups) : GroupIsExact(c, k)

\* the same for the batches whose dates all lie in the years 2000 to 2099
C12_GroupsOfThisCentury ==
    \A c \in 1..Len(done) :
        (\A k \in 1..Len(done[c].groups) : CalendarDate(UniqueDates(done[c].rows)[k])[3] \in 2000..2099)
            => \A k \in 1..Len(done[c].groups) : GroupIsExact(c, k)

\* a batch of 2 June and 1 June over weather of both days: each group holds its own sample
C12_Witness ==
    /\ wstore = PickDocs(1, {2, 3})
    /\ Len(done) = 1
    /\ done[1].rows = <<MeterRowStartStop, MeterRowExportPair>>
    /\ done[1].groups = <<<<StoreDocs[3]>>, <<StoreDocs[2]>>>>

\* C13: for every valid DD-MM-YYYY date, the date converted to DD-MMM-YY and from there to
\* ISO denotes the calendar date that the direct conversion to ISO denotes.
C13_RoundTripKeepsCalendarDate ==
    conv.op = "roundTrip" => CalendarDate(conv.out[2]) = CalendarDate(conv.out[3])

\* the same for the dates of the years 2000 to 2099 with a month from 01 to 12
C13_RoundTripThisCentury ==
    (/\ conv.op = "roundTrip"
     /\ CalendarDate(conv.input)[3] \in 2000..2099
     /\ CalendarDate(conv.input)[2] \in 1..12) => conv.out[2] = conv.out[3]

\* 15-06-2025 became 15-Jun-25 and from there 2025-06-15, as directly
C13_Witness ==
    /\ conv.op = "roundTrip"
    /\ conv.input = <<"1", "5", "-", "0", "6", "-", "2", "0", "2", "5">>
    /\ conv.out[1] = <<"1", "5", "-", "J", "u", "n", "-", "2", "5">>
    /\ conv.out[2] = <<"2", "0", "2", "5", "-", "0", "6", "-", "1", "5">>
    /\ conv.out[3] = conv.out[2]

\* the string is a date in an accepted form: day, month and year separated by - or /, the
\* month a number from 1 to 12 or the name of a month, or an ISO date with such a month
IsAcceptedDate(s) ==
    \/ MatchDayMonthYear(s) # <<>> /\ DecVal(MatchDayMonthYear(s)[2]) \in 1..12
    \/ \E parts \in {SplitOn(s, {"/", "-"})} :
        /\ Len(parts) = 3
        /\ Len(parts[1]) \in 1..2 /\ AllDigits(parts[1])
        /\ Len(parts[2]) = 3 /\ AllLetters(parts[2]) /\ MonthIndexOf(parts[2]) > 0
        /\ Len(parts[3]) \in 2..4 /\ AllDigits(parts[3])
    \/ MatchISO(s) /\ DecVal(SubSeq(s, 6, 7)) \in 1..12

\* C14: date normalization returns every input that is not a date in an accepted form as
\* it came, up to the surrounding blanks, whatever its shape.
C14_UnparseableDateIsReturnedUnchanged ==
    (conv.op \in {"meterNormalize", "weatherNormalize"} /\ ~IsAcceptedDate(Trim(conv.input)))
        => conv.out[1] = Trim(conv.input)

\* the same for the inputs that have none of the shapes the normalizers match
C14_ShapelessInputIsReturnedUnchanged ==
    (/\ conv.op \in {"meterNormalize", "weatherNormalize"}
     /\ MatchDayMonYear(Trim(conv.input)) = <<>>
     /\ MatchDayMonthYear(Trim(conv.input)) = <<>>) => conv.out[1] = Trim(conv.input)

\* the word hello passed through the meter normalizer unchanged
C14_Witness ==
    /\ conv.op = "meterNormalize"
    /\ conv.input = <<"h", "e", "l", "l", "o">>
    /\ conv.out = <<conv.input>>

\* the number of defects d among the defects of the i-th row of a result
CountDefect(result, i, d) ==
    Cardinality({m \in 1..Len(DefectsOfRow(result, i)) : DefectsOfRow(result, i)[m] = d})

\* an earlier row of the batch carries the same normalized date and time as the i-th
EarlierSameInstant(rows, i) ==
    \E j \in 1..(i - 1) :
        /\ HasDateTimeKey(rows[j])
        /\ WeatherRowDate(rows[j]) = WeatherRowDate(rows[i])
        /\ WeatherRowTime(rows[j]) = WeatherRowTime(rows[i])

EarlierSameDate(rows, i) ==
    \E j \in 1..(i - 1) : RowDateValid(rows[j]) /\ RowDate(rows[j]) = RowDate(rows[i])

\* the row has no defect of its own
OtherwiseValid(row) == RowErrors(row, {}) = <<>>

PresentNumeric(v) ==
    \/ v.t = "num"
    \/ /\ v.t = "str"
       /\ Trim(v.s) # <<>>
       /\ \/ AllDigits(Trim(v.s))
          \/ Trim(v.s)[1] = "-" /\ Len(Trim(v.s)) > 1 /\ AllDigits(Tail(Trim(v.s)))

\* the row has a Start Time and a Stop Time that are both valid HH:MM once normalized
HasValidStartStop(row) ==
    /\ NormalizeTimeValue(RowGet(row, K.StartTime)) # <<>>
    /\ NormalizeTimeValue(RowGet(row, K.StopTime)) # <<>>
    /\ isValidHHMM(NormalizeTimeValue(RowGet(row, K.StartTime)))
    /\ isValidHHMM(NormalizeTimeValue(RowGet(row, K.StopTime)))

\* C17: a validated meter row carries 'Each date must have either Start/Stop times OR
\* Export/Import readings' exactly when it has neither a valid Start and Stop time nor a
\* reading column that holds a number.
C17_EitherOrIffNoTimesAndNoReading ==
    \A c \in 1..Len(done) : done[c].svc = "meter" =>
        \A i \in 1..Len(done[c].rows) :
            (CountDefect(done[c].result, i, Msg.EitherOr) > 0)
                <=> (/\ ~HasValidStartStop(done[c].rows[i])
                     /\ ~\E e \in 1..Len(done[c].rows[i]) :
                            IsReadingKey(done[c].rows[i][e].k) /\ PresentNumeric(done[c].rows[i][e].v))

\* no reading cell of the row is a text of blanks only
NoBlankText(row) ==
    \A e \in 1..Len(row) : ~(row[e].v.t = "str" /\ row[e].v.s # <<>> /\ Trim(row[e].v.s) = <<>>)

\* the same for the rows none of whose cells is a text of blanks
C17_EitherOrWithoutBlankTexts ==
    \A c \in 1..Len(done) : done[c].svc = "meter" =>
        \A i \in 1..Len(done[c].rows) : NoBlankText(done[c].rows[i]) =>
            ((CountDefect(done[c].result, i, Msg.EitherOr) > 0)
                <=> (/\ ~HasValidStartStop(done[c].rows[i])
                     /\ ~\E e \in 1..Len(done[c].rows[i]) :
                            IsReadingKey(done[c].rows[i][e].k) /\ PresentNumeric(done[c].rows[i][e].v)))

\* a row with a date only is flagged, and only for that
C17_Witness ==
    /\ Len(done) = 1 /\ done[1].svc = "meter"
    /\ done[1].rows = <<CellRow(Undef, Undef, Undef, Undef)>>
    /\ DefectsOfRow(done[1].result, 1) = <<Msg.EitherOr>>

\* the key contains the word export or import, in any mix of upper and lower case
NamesExportOrImport(k) ==
    \E a \in 1..Len(k) : \E b \in a..Len(k) :
        LowerStr(SubSeq(k, a, b)) \in {<<"e", "x", "p", "o", "r", "t">>, <<"i", "m", "p", "o", "r", "t">>}

\* the cell is blank: null, or a text that is empty or of blanks only
BlankCell(v) == v.t = "null" \/ (v.t = "str" /\ Trim(v.s) = <<>>)

\* the number a numeric cell holds
NumericValue(v) ==
    IF v.t = "num" THEN v.n
    ELSE IF Trim(v.s)[1] = "-" THEN 0 - DecVal(Tail(Trim(v.s))) ELSE DecVal(Trim(v.s))

\* C18: in a validated meter row every column whose name contains export or import in any
\* case is checked as a reading: a blank cell gives no defect, a cell that is not a number
\* gives '<key> must be numeric' once, a negative number gives '<key> cannot be negative'
\* once, and a number that is not negative gives no defect.
C18_ReadingColumnsAreChecked ==
    \A c \in 1..Len(done) : done[c].svc = "meter" =>
        \A i \in 1..Len(done[c].rows) : \A e \in 1..Len(done[c].rows[i]) :
            LET k == done[c].rows[i][e].k
                v == done[c].rows[i][e].v
            IN  NamesExportOrImport(k) =>
                    /\ CountDefect(done[c].result, i, MsgNumeric(k))
                           = (IF ~BlankCell(v) /\ ~PresentNumeric(v) THEN 1 ELSE 0)
                    /\ CountDefect(done[c].result, i, MsgNegative(k))
                           = (IF PresentNumeric(v) /\ NumericValue(v) < 0 THEN 1 ELSE 0)

\* a negative reading, and a word under a column named in upper case, both flagged
C18_Witness ==
    /\ Len(done) = 1 /\ done[1].svc = "meter"
    /\ done[1].rows = <<CellRow(Undef, Undef, Num(0 - 5), Str(<<"x">>))>>
    /\ DefectsOfRow(done[1].result, 1) = <<MsgNegative(KExportInitial), MsgNumeric(KImported)>>

\* the pairs of columns of one type in a row: an Initial or Start column and a Final or End
\* column named for the same meter identifier
ColumnPairs(row, type) ==
    {[id |-> PairMatch(row[a].k, LowerStr(type), Lit.Initial, Lit.Start).id, ik |-> row[a].k, fk |-> row[b].k] :
        <<a, b>> \in {p \in (1..Len(row)) \X (1..Len(row)) :
            /\ PairMatch(row[p[1]].k, LowerStr(type), Lit.Initial, Lit.Start).matched
            /\ PairMatch(row[p[2]].k, LowerStr(type), Lit.Final, Lit.End).matched
            /\ PairMatch(row[p[1]].k, LowerStr(type), Lit.Initial, Lit.Start).id
                   = PairMatch(row[p[2]].k, LowerStr(type), Lit.Final, Lit.End).id}}

\* the pairs whose two cells hold numbers
NumericPairs(row, type) ==
    {p \in ColumnPairs(row, type) : PresentNumeric(RowGet(row, p.ik)) /\ PresentNumeric(RowGet(row, p.fk))}

\* final minus initial of a pair
PairDifference(row, p) == NumericValue(RowGet(row, p.fk)) - NumericValue(RowGet(row, p.ik))

RECURSIVE SumDifferences(_, _)
SumDifferences(row, pairs) ==
    IF pairs = {} THEN 0
    ELSE LET p == CHOOSE x \in pairs : TRUE
         IN  PairDifference(row, p) + SumDifferences(row, pairs \ {p})

\* the GSS total of one type, the row being GSS-tagged or not
ExpectedGssTotal(row, type, tagged) ==
    SumDifferences(row, {p \in NumericPairs(row, type) : ~tagged \/ IsGssId(p.id)})

\* the row has a pair of columns, of either type, whose identifier contains gss
HasGssPair(row) == \E p \in ColumnPairs(row, TypeExport) \cup ColumnPairs(row, TypeImport) : IsGssId(p.id)

\* the row has such a pair and both of its cells hold numbers
HasGssNumericPair(row) == \E p \in NumericPairs(row, TypeExport) \cup NumericPairs(row, TypeImport) : IsGssId(p.id)

\* the three GSS columns of the enriched row r are those of the input row, tagged or not
GssColumnsAre(row, r, tagged) ==
    /\ RowGet(r, K.GssExportTotal) = Num(ExpectedGssTotal(row, TypeExport, tagged))
    /\ RowGet(r, K.GssImportTotal) = Num(ExpectedGssTotal(row, TypeImport, tagged))
    /\ RowGet(r, K.NetExportAtGss)
           = Num(ExpectedGssTotal(row, TypeExport, tagged) - ExpectedGssTotal(row, TypeImport, tagged))

\* C19: GSS Export Total and GSS Import Total of a validated meter row are the sums of the
\* export and import pair totals whose identifier contains gss when the row has a
\* GSS-tagged pair of either type, and the sums of all export and import pair totals
\* otherwise; Net Export @GSS is their difference.
C19_GssTotalsFollowTheTaggedPairs ==
    \A c \in 1..Len(done) : done[c].svc = "meter" =>
        \A i \in 1..Len(done[c].rows) :
            GssColumnsAre(done[c].rows[i], done[c].result.rows[i], HasGssPair(done[c].rows[i]))

\* the same with the tag taken from the pairs that have a total
C19_GssTotalsFollowTheTaggedTotals ==
    \A c \in 1..Len(done) : done[c].svc = "meter" =>
        \A i \in 1..Len(done[c].rows) :
            GssColumnsAre(done[c].rows[i], done[c].result.rows[i], HasGssNumericPair(done[c].rows[i]))

\* Export1 Initial 100 and Export1 Final 150 without a GSS column: GSS Export Total 50
C19_Witness ==
    /\ Len(done) = 1 /\ done[1].svc = "meter"
    /\ done[1].rows = <<PairRow(Undef, Undef, Num(100), Num(150), Undef, Undef)>>
    /\ RowGet(done[1].result.rows[1], K.GssExportTotal) = Num(50)
    /\ RowGet(done[1].result.rows[1], K.NetExportAtGss) = Num(50)

\* the column `${type} Total ${id}` of a pair
TotalLabel(type, id) == Trim(type \o LabelTotal \o id)

\* the Initial or Start columns of one type that have no Final or End column of their meter
UnmatchedInitials(row, type) ==
    {e \in 1..Len(row) :
        /\ PairMatch(row[e].k, LowerStr(type), Lit.Initial, Lit.Start).matched
        /\ \A p \in ColumnPairs(row, type) : p.ik # row[e].k}

\* a defect that the date, time and reading rules give the row
RuleDefects(row) ==
    {Msg.DateFormat, Msg.DuplicateDate, Msg.StartTime, Msg.StopTime}
    \cup (IF ~HasValidStartStop(row) THEN {Msg.EitherOr} ELSE {})
    \cup {MsgNumeric(row[e].k) : e \in {x \in 1..Len(row) : NamesExportOrImport(row[x].k) /\ ~BlankCell(row[x].v) /\ ~PresentNumeric(row[x].v)}}
    \cup {MsgNegative(row[e].k) : e \in {x \in 1..Len(row) : NamesExportOrImport(row[x].k) /\ PresentNumeric(row[x].v) /\ NumericValue(row[x].v) < 0}}

\* C20: for each type and meter identifier whose Initial or Start column and Final or End
\* column both hold numbers, the validated row carries the total final minus initial; an
\* initial column without a final column of its meter gives no total and no defect.
C20_PairTotalIsFinalMinusInitial ==
    \A c \in 1..Len(done) : done[c].svc = "meter" =>
        \A i \in 1..Len(done[c].rows) : \A type \in {TypeExport, TypeImport} :
            LET row == done[c].rows[i]
                r == done[c].result.rows[i]
            IN  /\ \A p \in NumericPairs(row, type) :
                       RowGet(r, TotalLabel(type, p.id)) = Num(PairDifference(row, p))
                /\ \A e \in UnmatchedInitials(row, type) :
                       /\ RowGet(r, TotalLabel(type, PairMatch(row[e].k, LowerStr(type), Lit.Initial, Lit.Start).id))
                              = RowGet(row, TotalLabel(type, PairMatch(row[e].k, LowerStr(type), Lit.Initial, Lit.Start).id))
                       /\ \A m \in 1..Len(DefectsOfRow(done[c].result, i)) :
                              DefectsOfRow(done[c].result, i)[m] \in RuleDefects(row)

\* a GSS pair, the pair of meter 1 and an import start without an end: two totals, no
\* import total, no defect
C20_Witness ==
    /\ Len(done) = 1 /\ done[1].svc = "meter"
    /\ done[1].rows = <<PairRow(Num(10), Num(30), Num(100), Num(150), Num(3), Undef)>>
    /\ RowGet(done[1].result.rows[1], TotalLabel(TypeExport, <<"G", "S", "S">>)) = Num(20)
    /\ RowGet(done[1].result.rows[1], TotalLabel(TypeExport, <<"1">>)) = Num(50)
    /\ RowGet(done[1].result.rows[1], TotalLabel(TypeImport, <<"1">>)) = Undef
    /\ done[1].result.errors = <<>>

\* the defects of the i-th row of a batch, the rows before it taken into account
DefectsExpected(svc, rows, i) ==
    IF svc = "meter"
    THEN RowErrors(rows[i], {RowDate(rows[j]) : j \in {x \in 1..(i - 1) : RowDateValid(rows[x])}})
    ELSE WeatherRowErrors(rows[i], {DateTimeKey(rows[j]) : j \in {x \in 1..(i - 1) : HasDateTimeKey(rows[x])}})

\* C21: in every validation result errors holds one entry for each row that has a defect
\* and none for a row without, the entry of the row at 0-based index n has rowNumber
\* n + 2, the entries are in strictly ascending order of rowNumber, and isValid is true
\* exactly when errors is empty.
C21_ErrorsListMirrorsDefectiveRows ==
    \A c \in 1..Len(done) :
        LET rows == done[c].rows
            errors == done[c].result.errors
        IN  /\ \A i \in 1..Len(rows) :
                   IF DefectsExpected(done[c].svc, rows, i) # <<>>
                   THEN Cardinality({e \in 1..Len(errors) : errors[e].rowNumber = (i - 1) + 2}) = 1
                        /\ DefectsOfRow(done[c].result, i) = DefectsExpected(done[c].svc, rows, i)
                   ELSE \A e \in 1..Len(errors) : errors[e].rowNumber # (i - 1) + 2
            /\ \A e \in 1..Len(errors) : errors[e].rowNumber \in 2..(Len(rows) + 1) /\ errors[e].errors # <<>>
            /\ \A e \in 1..(Len(errors) - 1) : errors[e].rowNumber < errors[e + 1].rowNumber
            /\ done[c].result.isValid <=> (errors = <<>>)

\* a clean row followed by two defective ones: entries 3 and 4, and the batch not valid
C21_Witness ==
    /\ Len(done) = 1 /\ done[1].svc = "meter"
    /\ done[1].rows = <<MeterRowExportPair, MeterRowGss, MeterRowExportPair>>
    /\ Len(done[1].result.errors) = 2
    /\ done[1].result.errors[1].rowNumber = 3
    /\ done[1].result.errors[2] = [rowNumber |-> 4, errors |-> <<Msg.DuplicateDate>>]
    /\ ~done[1].result.isValid

\* the totals and GSS columns that the pair columns of a row give on their own
OwnTotalsAttached(row, r) ==
    /\ \A type \in {TypeExport, TypeImport} : \A p \in NumericPairs(row, type) :
           RowGet(r, TotalLabel(type, p.id)) = Num(PairDifference(row, p))
    /\ GssColumnsAre(row, r, HasGssNumericPair(row))

\* C22: validate returns one output row per input row in the order of the input, the rows
\* with defects included; every reading at fault of a row is reported whatever the
\* readings before it, and every row carries its derived columns whatever the rows before
\* it.
C22_EveryRowIsValidatedAndEnriched ==
    \A c \in 1..Len(done) : done[c].svc = "meter" =>
        /\ Len(done[c].result.rows) = Len(done[c].rows)
        /\ \A i \in 1..Len(done[c].rows) :
               LET row == done[c].rows[i]
                   r == done[c].result.rows[i]
               IN  /\ Len(r) >= Len(row) /\ \A e \in 1..Len(row) : r[e].k = row[e].k
                   /\ DefectsOfRow(done[c].result, i) = DefectsExpected("meter", done[c].rows, i)
                   /\ \A e \in 1..Len(row) : NamesExportOrImport(row[e].k) =>
                          /\ (~BlankCell(row[e].v) /\ ~PresentNumeric(row[e].v))
                                 => CountDefect(done[c].result, i, MsgNumeric(row[e].k)) = 1
                          /\ (PresentNumeric(row[e].v) /\ NumericValue(row[e].v) < 0)
                                 => CountDefect(done[c].result, i, MsgNegative(row[e].k)) = 1
                   /\ OwnTotalsAttached(row, r)
                   /\ RowGet(r, K.PlantStartTime).t = "str" /\ RowGet(r, K.PlantStopTime).t = "str"
                   /\ RowGet(r, K.Total).t = "str"

\* a row with three defects is followed by a row that gets its totals and its own defect
C22_Witness ==
    /\ Len(done) = 1 /\ done[1].svc = "meter"
    /\ done[1].rows \in DefectFirstBatches /\ Len(done[1].rows) = 2
    /\ Len(DefectsOfRow(done[1].result, 1)) = 3
    /\ DefectsOfRow(done[1].result, 2) = <<Msg.DuplicateDate>>
    /\ RowGet(done[1].result.rows[2], TotalLabel(TypeExport, <<"1">>)) = Num(50)
    /\ RowGet(done[1].result.rows[2], K.GssExportTotal) = Num(20)

\* the defects of the Module Temperature rule
ModuleTempMessages == {
    Defect("Module Temperature must be a number", <<>>),
    Defect("Module Temperature cannot be 0", <<>>),
    Defect("Module Temperature cannot be negative", <<>>),
    Defect("Module Temperature must be at most 100 C", <<>>) }

\* the defects of the i-th row that are about Module Temperature, in order
ModuleTempDefectsOfRow(result, i) ==
    SelectSeq(DefectsOfRow(result, i),
              LAMBDA d : d \in ModuleTempMessages \/ ContainsLit(d.key, <<"m", "o", "d", "u", "l", "e">>))

\* C23: in a validated weather row a Module Temperature that holds a number gives exactly
\* 'Module Temperature cannot be 0' for 0, exactly 'Module Temperature cannot be negative'
\* for a negative number, one range defect above 100 and no defect from above 0 up to 100.
C23_ModuleTemperatureRule ==
    \A c \in 1..Len(done) : done[c].svc = "weather" =>
        \A i \in 1..Len(done[c].rows) :
            LET v == RowGet(done[c].rows[i], K.ModuleTemp)
                ds == ModuleTempDefectsOfRow(done[c].result, i)
            IN  PresentNumeric(v) =>
                    ds = (IF NumericValue(v) = 0 THEN <<Defect("Module Temperature cannot be 0", <<>>)>>
                          ELSE IF NumericValue(v) < 0 THEN <<Defect("Module Temperature cannot be negative", <<>>)>>
                          ELSE IF NumericValue(v) > 100 THEN <<Defect("Module Temperature must be at most 100 C", <<>>)>>
                          ELSE <<>>)

\* a Module Temperature of -5 gives the one defect 'cannot be negative'
C23_Witness ==
    /\ Len(done) = 1 /\ done[1].svc = "weather"
    /\ done[1].rows = <<TempRow(Num(0 - 5))>>
    /\ DefectsOfRow(done[1].result, 1) = <<Defect("Module Temperature cannot be negative", <<>>)>>

\* the keys of the computed fields of a row
ComputedKeys(row) ==
    {K.PlantStartTime, K.PlantStopTime, K.Total, K.GssExportTotal, K.GssImportTotal, K.NetExportAtGss}
    \cup {TotalLabel(TypeExport, p.id) : p \in NumericPairs(row, TypeExport)}
    \cup {TotalLabel(TypeImport, p.id) : p \in NumericPairs(row, TypeImport)}

\* the plant start and stop time computed from the weather group of the i-th row's date
FreshTimes(c, i) ==
    LET row == done[c].rows[i]
        uniqueDates == UniqueDates(done[c].rows)
        ks == {k \in 1..Len(uniqueDates) : uniqueDates[k] = RowDate(row)}
        group == IF RowDateValid(row) /\ ks # {} /\ done[c].groups # <<>>
                 THEN done[c].groups[CHOOSE k \in ks : TRUE] ELSE <<>>
        start == IF RowDateValid(row) THEN PlantStartTime(ValidatePoints(group)) ELSE T0000
        stop == IF RowDateValid(row) THEN PlantStopTime(ValidatePoints(group)) ELSE T0000
    IN  <<Str(start), Str(stop), Str(TotalTime(start, stop))>>

\* C24: every output row of meter validate keeps each original column that is not the key
\* of a computed field with its value and in its place, and holds under the keys of the
\* computed fields the freshly computed values, whatever the input row had there.
C24_OriginalColumnsKeptComputedOverwritten ==
    \A c \in 1..Len(done) : done[c].svc = "meter" =>
        \A i \in 1..Len(done[c].rows) :
            LET row == done[c].rows[i]
                r == done[c].result.rows[i]
            IN  /\ Len(r) >= Len(row)
                /\ \A e \in 1..Len(row) : row[e].k \notin ComputedKeys(row) => r[e] = row[e]
                /\ {r[e].k : e \in 1..Len(r)} = {row[e].k : e \in 1..Len(row)} \cup ComputedKeys(row)
                /\ AttachedTimes(c, i) = FreshTimes(c, i)
                /\ OwnTotalsAttached(row, r)

\* a row that came with Plant Start Time 11:11, Total 99:99 and GSS Export Total 7 returns
\* with the computed values, its date as it was
C24_Witness ==
    /\ wstore = PickDocs(1, {1, 2})
    /\ Len(done) = 1 /\ done[1].svc = "meter"
    /\ done[1].rows = <<MeterRowPrefilled>>
    /\ RowGet(done[1].result.rows[1], K.Date) = RowGet(MeterRowPrefilled, K.Date)
    /\ RowGet(done[1].result.rows[1], K.PlantStartTime) = Str(<<"0", "9", ":", "0", "0">>)
    /\ RowGet(done[1].result.rows[1], K.Total) # Str(<<"9", "9", ":", "9", "9">>)
    /\ RowGet(done[1].result.rows[1], K.GssExportTotal) = Num(0)

\* C25: when the response to a submit is applied, a success leaves the page without rows,
\* without errors and not valid, and a failure leaves rows, errors and validity as they
\* were; a page without rows sends no submit request, and rows come back only with the
\* response to an upload.
C25_SubmittedIsTerminal ==
    [][/\ (req.kind = "submit" /\ req'.kind = "none") =>
              IF page'.success
              THEN page'.data = <<>> /\ page'.errors = <<>> /\ ~page'.isValid
              ELSE page'.data = page.data /\ page'.errors = page.errors /\ page'.isValid = page.isValid
       /\ (page.data = <<>> /\ req.kind # "submit") => req'.kind # "submit"
       /\ (page.data = <<>> /\ page'.data # <<>>) => req.kind = "upload"]_vars

\* the rows were written to the collection and the page is empty, with no request in flight
C25_Witness ==
    /\ page.success /\ page.data = <<>> /\ page.errors = <<>> /\ ~page.isValid
    /\ wstore # <<>>
    /\ req = NoReq

\* the second request validated the rows that the first returned
Revalidated == Len(done) = 2 /\ done[2].rows = done[1].result.rows

\* C26: validating the rows that validate returned, over the same weather collection,
\* gives the same errors, the same isValid and the same rows again.
C26_RevalidationIsAFixedPoint ==
    Revalidated =>
        /\ done[2].result.errors = done[1].result.errors
        /\ done[2].result.isValid = done[1].result.isValid
        /\ done[2].result.rows = done[1].result.rows

\* the rows and their derived fields are the same again
C26_RevalidationKeepsTheRows == Revalidated => done[2].result.rows = done[1].result.rows

\* the row of meter 1 validated twice with the same result
C26_Witness ==
    /\ Revalidated
    /\ done[1].rows = <<MeterRowExportPair>>
    /\ done[1].result.isValid /\ done[2].result = done[1].result

(***************************************************************************)
(* The meter listing and its plant times                                   *)
(***************************************************************************)
\* the collation rank of a character of a stored time: punctuation before digits
CharRank(ch) == IF ch \in Digits THEN 1 + DigitVal(ch) ELSE 0

\* a.localeCompare(b) < 0
RECURSIVE LocaleLess(_, _)
LocaleLess(a, b) ==
    IF b = <<>> THEN FALSE
    ELSE IF a = <<>> THEN TRUE
    ELSE IF CharRank(Head(a)) # CharRank(Head(b)) THEN CharRank(Head(a)) < CharRank(Head(b))
    ELSE LocaleLess(Tail(a), Tail(b))

\* record.time || record.Time || '00:00'
RecordTime(record) ==
    IF Truthy(Get(record, "time")) THEN JSString(Get(record, "time"))
    ELSE IF Truthy(Get(record, "Time")) THEN JSString(Get(record, "Time"))
    ELSE T0000

\* Number(record.poa ?? record.POA ?? 0)
RecordPoa(record) == JSNumber(Coalesce(Coalesce(Get(record, "poa"), Get(record, "POA")), Num(0)))

\* the stable sort of the records by localeCompare of their times, descending when desc
RECURSIVE InsertByLocale(_, _, _)
InsertByLocale(x, sorted, desc) ==
    IF sorted = <<>> THEN <<x>>
    ELSE IF (IF desc THEN LocaleLess(RecordTime(Head(sorted)), RecordTime(x))
                     ELSE LocaleLess(RecordTime(x), RecordTime(Head(sorted))))
         THEN <<x>> \o sorted
         ELSE <<Head(sorted)>> \o InsertByLocale(x, Tail(sorted), desc)

RECURSIVE SortByLocale(_, _)
SortByLocale(ws, desc) ==
    IF ws = <<>> THEN <<>>
    ELSE InsertByLocale(ws[Len(ws)], SortByLocale(SubSeq(ws, 1, Len(ws) - 1), desc), desc)

\* MeterService.calculatePlantStartTime
calculatePlantStartTime(weatherRecords) ==
    LET sorted == SortByLocale(weatherRecords, FALSE)
        hits == {i \in 1..Len(sorted) : IsNum(RecordPoa(sorted[i])) /\ RecordPoa(sorted[i]).n >= 10}
    IN  IF hits = {} THEN T0000 ELSE RecordTime(sorted[CHOOSE i \in hits : \A j \in hits : i <= j])

\* MeterService.calculatePlantStopTime
calculatePlantStopTime(weatherRecords) ==
    LET sorted == SortByLocale(weatherRecords, TRUE)
        inBand == {i \in 1..Len(sorted) : IsNum(RecordPoa(sorted[i])) /\ RecordPoa(sorted[i]).n > 0 /\ RecordPoa(sorted[i]).n < 50}
        positive == {i \in 1..Len(sorted) : IsNum(RecordPoa(sorted[i])) /\ RecordPoa(sorted[i]).n > 0}
    IN  IF inBand # {} THEN RecordTime(sorted[CHOOSE i \in inBand : \A j \in inBand : i <= j])
        ELSE IF positive # {} THEN RecordTime(sorted[CHOOSE i \in positive : \A j \in positive : i <= j])
        ELSE T0000

\* MeterService.findAll over a page that holds every meter document: each document with
\* the start and end time computed from the weather of its date
MeterFindAll ==
    /\ mstore # <<>>
    /\ conv.input # <<Stores>>
    /\ conv' = [op |-> "findAll", input |-> <<Stores>>,
                out |-> [d \in 1..Len(mstore) |->
                            [date |-> mstore[d].date, time |-> mstore[d].time,
                             startTime |-> Str(calculatePlantStartTime(getWeatherByDate(JSString(mstore[d].date)))),
                             endTime |-> Str(calculatePlantStopTime(getWeatherByDate(JSString(mstore[d].date))))]]]
    /\ UNCHANGED outsideDates

\* a sample of 1 June stored with the hour as the sheet had it
DocEarlyRawTime ==
    [date |-> Str(<<"0", "1", "-", "J", "u", "n", "-", "2", "5">>), time |-> Str(<<"9", ":", "0", "0">>), poa |-> Num(10)]

\* the stores of the passes, and one whose morning sample keeps the hour unpadded
ListingStores == PassStores \cup {<<DocEarlyRawTime, StoreDocs[2]>>}

InitListing ==
    /\ CalcIdle
    /\ wstore \in ListingStores
    /\ ValidateIdle
    /\ SubmitIdle
    /\ PageIdle
    /\ ConvIdle

NextListing ==
    \/ \E rows \in PassBatches : CanPass /\ MeterValidateStart(rows)
    \/ \E i \in 1..Len(calls) : MeterValidateFinish(i)
    \/ \E rows \in PassBatches : CanPass /\ MeterSubmitStart(rows)
    \/ \E s \in 1..Len(subs) : MeterSubmitFinish(s)
    \/ MeterFindAll

SpecListing == InitListing /\ [][NextListing]_vars

\* validate, submit and the listing have each computed the times of the date
AllThreeComputed(c, i, e, j, d) ==
    /\ done[c].svc = "meter" /\ RowDateValid(done[c].rows[i])
    /\ log[e].svc = "meter" /\ log[e].threw = "none" /\ log[e].post.m = mstore
    /\ conv.op = "findAll" /\ conv.input = <<Stores>>
    /\ Str(RowDate(done[c].rows[i])) = conv.out[d].date
    /\ Str(MeterSubmitDate(log[e].rows[j])) = conv.out[d].date

\* C27: for one meter date over one weather collection, validateRows, submitRows and
\* findAll give the same Plant Start Time and the same Plant Stop Time.
C27_ThreeComputationsAgree ==
    \A c \in 1..Len(done), e \in 1..Len(log) :
        \A i \in 1..Len(done[c].rows), j \in 1..Len(log[e].rows) :
            \A d \in (IF conv.op = "findAll" THEN 1..Len(conv.out) ELSE {}) :
                AllThreeComputed(c, i, e, j, d)
                    => /\ AttachedTimes(c, i)[1] = PersistedTimes(e, j)[1]
                       /\ AttachedTimes(c, i)[2] = PersistedTimes(e, j)[2]
                       /\ PersistedTimes(e, j)[1] = conv.out[d].startTime
                       /\ PersistedTimes(e, j)[2] = conv.out[d].endTime

\* validate and submit alone agree
C27_ValidateAndSubmitAgree ==
    \A c \in 1..Len(done), e \in 1..Len(log) :
        \A i \in 1..Len(done[c].rows), j \in 1..Len(log[e].rows) :
            (/\ done[c].svc = "meter" /\ RowDateValid(done[c].rows[i])
             /\ log[e].svc = "meter" /\ log[e].threw = "none"
             /\ RowDate(done[c].rows[i]) = MeterSubmitDate(log[e].rows[j]))
                => /\ AttachedTimes(c, i)[1] = PersistedTimes(e, j)[1]
                   /\ AttachedTimes(c, i)[2] = PersistedTimes(e, j)[2]

\* submit and the listing alone agree
C27_SubmitAndListingAgree ==
    \A e \in 1..Len(log) : \A j \in 1..Len(log[e].rows) :
        \A d \in (IF conv.op = "findAll" THEN 1..Len(conv.out) ELSE {}) :
            (/\ log[e].svc = "meter" /\ log[e].threw = "none" /\ log[e].post.m = mstore
             /\ conv.input = <<Stores>>
             /\ Str(MeterSubmitDate(log[e].rows[j])) = conv.out[d].date)
                => /\ PersistedTimes(e, j)[1] = conv.out[d].startTime
                   /\ PersistedTimes(e, j)[2] = conv.out[d].endTime

\* all three were computed for 1 June from two samples and none fell back to 00:00
C27_Witness ==
    \E c \in 1..Len(done), e \in 1..Len(log) :
        \E i \in 1..Len(done[c].rows), j \in 1..Len(log[e].rows) :
            \E d \in (IF conv.op = "findAll" THEN 1..Len(conv.out) ELSE {}) :
                /\ AllThreeComputed(c, i, e, j, d)
                /\ Len(wstore) = 2
                /\ AttachedTimes(c, i)[1] # Str(T0000) /\ AttachedTimes(c, i)[2] # Str(T0000)
                /\ PersistedTimes(e, j)[1] # Str(T0000) /\ conv.out[d].startTime # Str(T0000)

\* both plant times of the calculation come from a qualifying sample, none is the fallback
BothFromSamples ==
    /\ plant.op # "none"
    /\ QualifyingSamples(MapValidatePoint(w), AtLeast10) # {}
    /\ QualifyingSamples(MapValidatePoint(w), Positive) # {}

\* C28: when Plant Start Time and Plant Stop Time both come from qualifying samples, the
\* stop is not earlier than the start and Total is stop minus start, never a wrapped value.
C28_StopIsNotBeforeStart ==
    BothFromSamples =>
        /\ timeToMinutes(plant.stop) >= timeToMinutes(plant.start)
        /\ plant.total = minutesToHHMM(timeToMinutes(plant.stop) - timeToMinutes(plant.start))

\* (9:00, 9) and (17:30, 60): the start is 17:30, the stop 09:00 and the total 15:30
C28_Witness ==
    /\ plant.op = "validate"
    /\ w = <<[date |-> Str(D01Jun25), time |-> Str(T900), poa |-> Num(9)],
             [date |-> Str(D01Jun25), time |-> Str(T1730), poa |-> Num(60)]>>
    /\ plant.start = T1730
    /\ plant.stop = <<"0", "9", ":", "0", "0">>
    /\ plant.total = <<"1", "5", ":", "3", "0">>

\* the rows the server validated for the request in flight, as the response returns them
RowsServerValidated ==
    IF req.kind = "upload" THEN req.rows ELSE WeatherValidateRows(req.rows, NewSeenDateTime).rows

C29_NoValidPageOverUnvalidatedEdit_Effect ==
    [][(/\ page.variant = "effect"
        /\ req.kind \in {"upload", "validate"} /\ req'.kind = "none"
        /\ page.raced)
            => (page'.isValid => page'.data = RowsServerValidated)]_vars

RowsLackingDateOrTime(rows) == Cardinality({i \in 1..Len(rows) : ~HasDateAndTime(rows[i])})

\* C30: the counts a weather submit returns account for every row: inserted + updated +
\* skipped is the number of rows, and skipped is the number of rows lacking a date or a time.
C30_CountsAccountForEveryRow ==
    \A e \in 1..Len(log) :
        (log[e].svc \in {"weather", "legacy"} /\ log[e].threw = "none")
            => /\ log[e].counts.inserted + log[e].counts.updated + log[e].counts.skipped = Len(log[e].rows)
               /\ log[e].counts.skipped = RowsLackingDateOrTime(log[e].rows)

\* the counts of the submit that checks exists and inserts add up to the number of rows
C30_InsertVariantCountsAddUp ==
    \A e \in 1..Len(log) :
        (log[e].svc = "legacy" /\ log[e].threw = "none")
            => log[e].counts.inserted + log[e].counts.skipped = Len(log[e].rows)

\* the upsert submit counts as skipped exactly the rows lacking a date or a time
C30_UpsertVariantSkipsExactly ==
    \A e \in 1..Len(log) :
        log[e].svc = "weather" => log[e].counts.skipped = RowsLackingDateOrTime(log[e].rows)

\* a submit returned without throwing and reported as skipped a row that has a date and a
\* time, the instant being stored already
C30_Witness ==
    \E e \in 1..Len(log) :
        /\ log[e].svc = "legacy" /\ log[e].threw = "none"
        /\ RowsLackingDateOrTime(log[e].rows) = 0
        /\ log[e].counts.skipped = 1
        /\ log[e].pre.w # <<>>

====
